---- MODULE Spec2Model ----
(***************************************************************************)
(* Model of the ai-developer-tools-mcp server: the tools/call handler of   *)
(* src/index.js, the four tool modules (both the direct-dataset and the    *)
(* API-client implementations found in the repository), the API client,    *)
(* the formatters and the mock dataset.                                    *)
(*                                                                         *)
(* Rendered text is modelled as real strings. Glyphs outside ASCII that    *)
(* the source writes literally (emoji, bullets, arrows) are written as     *)
(* bracketed ASCII names, e.g. "[bullet]" and "[cross]"; so is the         *)
(* backtick, "[tick]", which a TLA+ string cannot hold.                    *)
(***************************************************************************)
EXTENDS Integers, Sequences, FiniteSets, TLC

VARIABLES
    TOOLS,            \* mock-data.js TOOLS, entries in insertion order
    CURRENT_METRICS,  \* mock-data.js CURRENT_METRICS, entries in insertion order
    HISTORICAL_DATA,  \* mock-data.js HISTORICAL_DATA, tool id -> array of points
    tools,            \* index.js registry: operation name -> registered module
    pc,               \* position of the call: "Idle", "Executing", "Responded"
    req,              \* the request of the call in flight
    exec,             \* what Operation.execute did in this call
    resp,             \* what the handler gave back to its caller
    anyFailed,        \* some earlier call of this server run failed
    fn,               \* a helper function under evaluation on its own, with its arguments
    ret,              \* what that helper returned
    calls             \* the calls in flight when the transport delivers several at once

vars ==
    <<TOOLS, CURRENT_METRICS, HISTORICAL_DATA, tools, pc, req, exec, resp, anyFailed,
      fn, ret, calls>>

-----------------------------------------------------------------------------
(* Bounds of the explored inputs.                                          *)

\* numeric arguments range from (schema minimum - Slack) to (schema maximum + Slack)
Slack == 1
\* the tools array of compare_tools has 0..MaxToolsLen entries
MaxToolsLen == 3

-----------------------------------------------------------------------------
(* The fixture dataset.                                                    *)

TOOLS_0 ==
    << [id |-> "openai", name |-> "OpenAI SDK", package |-> "openai",
        description |-> "Official OpenAI API client", category |-> "llm-api"],
       [id |-> "anthropic", name |-> "Anthropic SDK", package |-> "@anthropic-ai/sdk",
        description |-> "Official Anthropic API client", category |-> "llm-api"],
       [id |-> "cursor", name |-> "Cursor", package |-> "cursor-api",
        description |-> "AI-first code editor", category |-> "editor"],
       [id |-> "copilot", name |-> "GitHub Copilot", package |-> "@github/copilot",
        description |-> "AI pair programmer", category |-> "assistant"],
       [id |-> "langchain", name |-> "LangChain", package |-> "langchain",
        description |-> "Framework for LLM applications", category |-> "framework"] >>

CURRENT_METRICS_0 ==
    << [id |-> "openai", npm_downloads_monthly |-> 36143000, npm_downloads_weekly |-> 8650000,
        github_stars |-> 18500, stackoverflow_questions_30d |-> 145,
        reddit_mentions_30d |-> 892, last_updated |-> "2025-01-15"],
       [id |-> "anthropic", npm_downloads_monthly |-> 13925000, npm_downloads_weekly |-> 3349000,
        github_stars |-> 4200, stackoverflow_questions_30d |-> 67,
        reddit_mentions_30d |-> 423, last_updated |-> "2025-01-15"],
       [id |-> "cursor", npm_downloads_monthly |-> 450000, npm_downloads_weekly |-> 112000,
        github_stars |-> 12300, stackoverflow_questions_30d |-> 89,
        reddit_mentions_30d |-> 1250, last_updated |-> "2025-01-15"],
       [id |-> "copilot", npm_downloads_monthly |-> 2100000, npm_downloads_weekly |-> 525000,
        github_stars |-> 8900, stackoverflow_questions_30d |-> 234,
        reddit_mentions_30d |-> 678, last_updated |-> "2025-01-15"],
       [id |-> "langchain", npm_downloads_monthly |-> 5711000, npm_downloads_weekly |-> 1427000,
        github_stars |-> 87500, stackoverflow_questions_30d |-> 456,
        reddit_mentions_30d |-> 1890, last_updated |-> "2025-01-15"] >>

Months_0 == <<"2024-07", "2024-08", "2024-09", "2024-10", "2024-11", "2024-12">>

Points(downloads) ==
    [i \in 1..Len(downloads) |-> [month |-> Months_0[i], downloads |-> downloads[i]]]

HISTORICAL_DATA_0 ==
    [id \in {"openai", "anthropic", "cursor", "copilot", "langchain"} |->
        CASE id = "openai" ->
               Points(<<18500000, 21200000, 24800000, 28100000, 32400000, 36143000>>)
          [] id = "anthropic" ->
               Points(<<6200000, 7800000, 9500000, 11200000, 12800000, 13925000>>)
          [] id = "cursor" ->
               Points(<<120000, 180000, 250000, 320000, 390000, 450000>>)
          [] id = "copilot" ->
               Points(<<1800000, 1850000, 1920000, 1980000, 2050000, 2100000>>)
          [] id = "langchain" ->
               Points(<<4100000, 4450000, 4820000, 5200000, 5450000, 5711000>>)]

\* the dataset as one value, handed to the operators that read it
Fixture ==
    [TOOLS |-> TOOLS_0, CURRENT_METRICS |-> CURRENT_METRICS_0,
     HISTORICAL_DATA |-> HISTORICAL_DATA_0]

Dataset ==
    [TOOLS |-> TOOLS, CURRENT_METRICS |-> CURRENT_METRICS,
     HISTORICAL_DATA |-> HISTORICAL_DATA]

\* ids of an ordered table
Ids(table) == {table[i].id : i \in 1..Len(table)}

\* TOOLS[id] / CURRENT_METRICS[id]: the entry of a known id
Entry(table, id) == table[CHOOSE i \in 1..Len(table) : table[i].id = id]

-----------------------------------------------------------------------------
(* Strings and arrays.                                                     *)

RECURSIVE Concat(_)
\* the concatenation of a sequence of strings (output += ..., template literals)
Concat(parts) ==
    IF parts = <<>> THEN "" ELSE Head(parts) \o Concat(Tail(parts))

RECURSIVE join(_, _)
\* Array.prototype.join
join(arr, sep) ==
    IF arr = <<>> THEN ""
    ELSE IF Len(arr) = 1 THEN arr[1]
    ELSE arr[1] \o sep \o join(Tail(arr), sep)

\* String.prototype.includes
includes(s, sub) ==
    \E i \in 1..(Len(s) - Len(sub) + 1) : SubSeq(s, i, i + Len(sub) - 1) = sub

\* the number of places where sub occurs in s
Occurrences(s, sub) ==
    Cardinality({i \in 1..(Len(s) - Len(sub) + 1) : SubSeq(s, i, i + Len(sub) - 1) = sub})

\* String.prototype.startsWith
startsWith(s, prefix) ==
    Len(s) >= Len(prefix) /\ SubSeq(s, 1, Len(prefix)) = prefix

Upper == "ABCDEFGHIJKLMNOPQRSTUVWXYZ"
Lower == "abcdefghijklmnopqrstuvwxyz"

LowerChar(c) ==
    IF \E i \in 1..26 : SubSeq(Upper, i, i) = c
    THEN LET i == CHOOSE j \in 1..26 : SubSeq(Upper, j, j) = c IN SubSeq(Lower, i, i)
    ELSE c

UpperChar(c) ==
    IF \E i \in 1..26 : SubSeq(Lower, i, i) = c
    THEN LET i == CHOOSE j \in 1..26 : SubSeq(Lower, j, j) = c IN SubSeq(Upper, i, i)
    ELSE c

RECURSIVE toLowerCase(_)
toLowerCase(s) ==
    IF s = "" THEN "" ELSE LowerChar(SubSeq(s, 1, 1)) \o toLowerCase(Tail(s))

RECURSIVE toUpperCase(_)
toUpperCase(s) ==
    IF s = "" THEN "" ELSE UpperChar(SubSeq(s, 1, 1)) \o toUpperCase(Tail(s))

\* Array.prototype.filter
filter(arr, Keep(_)) == SelectSeq(arr, Keep)

\* Array.prototype.map
map(arr, F(_)) == [i \in 1..Len(arr) |-> F(arr[i])]

\* Array.prototype.slice(0, end): a negative end counts from the end of the array
sliceFirst(arr, end) ==
    LET e == IF end < 0 THEN (IF Len(arr) + end > 0 THEN Len(arr) + end ELSE 0)
             ELSE (IF end < Len(arr) THEN end ELSE Len(arr))
    IN  SubSeq(arr, 1, e)

\* slice mistaken for splice: the receiver loses the entries that are returned
slice_asSplice(arr, start) ==
    LET b == IF start < 0 THEN (IF Len(arr) + start > 0 THEN Len(arr) + start ELSE 0)
             ELSE (IF start < Len(arr) THEN start ELSE Len(arr))
    IN  [result |-> SubSeq(arr, b + 1, Len(arr)), receiver |-> SubSeq(arr, 1, b)]

\* Array.prototype.slice(start): the entries from start on (a negative start counts
\* from the end of the array), and the receiver, which slice leaves as it was
slice(arr, start) ==
    LET b == IF start < 0 THEN (IF Len(arr) + start > 0 THEN Len(arr) + start ELSE 0)
             ELSE (IF start < Len(arr) THEN start ELSE Len(arr))
    IN  [result |-> SubSeq(arr, b + 1, Len(arr)), receiver |-> arr]

\* Array.prototype.sort with a comparator: Before(a, b) is compare(a, b) < 0.
\* The sort is stable (ECMAScript 2019): entries that compare equal keep their
\* order, so an entry's place is the number of entries that sort before it.
sort(arr, Before(_, _)) ==
    LET n == Len(arr)
        Place(i) ==
            1 + Cardinality({j \in 1..n :
                    /\ j # i
                    /\ \/ Before(arr[j], arr[i])
                       \/ (~Before(arr[i], arr[j]) /\ j < i)})
    IN  [k \in 1..n |-> arr[CHOOSE i \in 1..n : Place(i) = k]]

\* Array.prototype.reduce without an initial value, on a non-empty array:
\* F(...F(F(arr[1], arr[2]), arr[3])..., arr[n])
reduce(arr, F(_, _)) ==
    LET acc[k \in 1..Len(arr)] == IF k = 1 THEN arr[1] ELSE F(acc[k - 1], arr[k])
    IN  acc[Len(arr)]

RECURSIVE Sum(_)
Sum(nums) == IF nums = <<>> THEN 0 ELSE Head(nums) + Sum(Tail(nums))

-----------------------------------------------------------------------------
(* Numbers. A JavaScript number that is not an integer (a growth percent)  *)
(* is kept as an exact fraction n/d with d > 0, in lowest terms. Two        *)
(* fractions compare as the doubles the source computes from the same      *)
(* integers do.                                                            *)

Abs(x) == IF x < 0 THEN -x ELSE x

RECURSIVE GCD(_, _)
GCD(a, b) == IF b = 0 THEN a ELSE GCD(b, a % b)

Rat(n, d) ==
    LET g == GCD(Abs(n), d) IN [n |-> n \div g, d |-> d \div g]

RECURSIVE RatLess(_, _)
\* a < b, by comparing the integer parts and then the remainders (no products)
RatLess(a, b) ==
    LET qa == a.n \div a.d
        qb == b.n \div b.d
        ra == a.n % a.d
        rb == b.n % b.d
    IN  IF qa # qb THEN qa < qb
        ELSE IF ra = 0 THEN rb > 0
        ELSE IF rb = 0 THEN FALSE
        ELSE RatLess([n |-> b.d, d |-> rb], [n |-> a.d, d |-> ra])

\* x / k for an integer k > 0
RatDiv(x, k) == Rat(x.n, x.d * k)

\* the value of Number.prototype.toFixed(1), in tenths, of a fraction >= 0
\* (the nearest tenth; a value half way between two tenths goes up)
Tenths(x) ==
    LET q == x.n \div x.d
        r == x.n % x.d
        t == (r * 10) \div x.d
        r2 == (r * 10) % x.d
    IN  q * 10 + t + (IF 2 * r2 >= x.d THEN 1 ELSE 0)

\* the text of a count of tenths >= 0: "12.3"
TenthsText(t) == ToString(t \div 10) \o "." \o ToString(t % 10)

\* Number.prototype.toFixed(1)
toFixed1(x) ==
    IF x.n < 0 THEN "-" \o TenthsText(Tenths([n |-> -x.n, d |-> x.d]))
    ELSE TenthsText(Tenths(x))

\* Of the values the model renders, the ones where num / 1_000_000 is a decimal
\* tie x.x5 and the double nearest to it lies below the tie, so that toFixed(1)
\* rounds it down (2.05 is stored as 2.04999999999999982...).
DoubleBelowTie == {1150000, 2050000, 2550000}

\* (num / 1_000_000).toFixed(1)
MillionsText(num) ==
    TenthsText(((num + 50000) \div 100000) - (IF num \in DoubleBelowTie THEN 1 ELSE 0))

\* (num / 1_000).toFixed(0): num / 1000 is exact at a tie, which goes up
ThousandsText(num) == ToString((num + 500) \div 1000)

\* compare.js formatNumber
compare_formatNumber(num) ==
    IF num >= 1000000 THEN MillionsText(num) \o "M"
    ELSE IF num >= 1000 THEN ThousandsText(num) \o "K"
    ELSE ToString(num)

\* trending.js formatNumber
trending_formatNumber(num) ==
    IF num >= 1000000 THEN MillionsText(num) \o "M"
    ELSE IF num >= 1000 THEN ThousandsText(num) \o "K"
    ELSE ToString(num)

\* formatNumber with the first threshold exclusive: num > 1_000_000
search_formatNumber_exclusive(num) ==
    IF num > 1000000 THEN MillionsText(num) \o "M"
    ELSE IF num >= 1000 THEN ThousandsText(num) \o "K"
    ELSE ToString(num)

\* search.js formatNumber
search_formatNumber(num) ==
    IF num >= 1000000 THEN MillionsText(num) \o "M"
    ELSE IF num >= 1000 THEN ThousandsText(num) \o "K"
    ELSE ToString(num)

\* history tool (direct-dataset implementation) formatNumber
history_formatNumber(num) ==
    IF num >= 1000000 THEN MillionsText(num) \o "M"
    ELSE IF num >= 1000 THEN ThousandsText(num) \o "K"
    ELSE ToString(num)

\* formatters formatNumber
formatNumber(num) ==
    IF num >= 1000000 THEN MillionsText(num) \o "M"
    ELSE IF num >= 1000 THEN ThousandsText(num) \o "K"
    ELSE ToString(num)

-----------------------------------------------------------------------------
(* mock-data.js                                                            *)

\* a JavaScript value that is a number, or undefined
Num(v) == [has |-> TRUE, v |-> v]
undefined == [has |-> FALSE]

\* calculateGrowth without its guard: the division is made whatever previous is;
\* d = 0 stands for the values that are no finite number (Infinity, NaN)
calculateGrowth_noGuard(current, previous) ==
    IF ~previous.has THEN [n |-> 0, d |-> 0]
    ELSE IF previous.v = 0
    THEN [n |-> (IF current > 0 THEN 1 ELSE IF current < 0 THEN -1 ELSE 0), d |-> 0]
    ELSE Rat((current - previous.v) * 100, previous.v)

\* calculateGrowth(current, previous): previous is a number or undefined
\* (!previous holds for undefined and for 0)
calculateGrowth(current, previous) ==
    IF ~previous.has \/ previous.v = 0 THEN Rat(0, 1)
    ELSE Rat((current - previous.v) * 100, previous.v)

Zero == Rat(0, 1)

\* getGrowthMetrics that always compares with the sample just before the latest
getGrowthMetrics_ignoresWindow(toolId, months, D) ==
    IF toolId \notin DOMAIN D.HISTORICAL_DATA \/ Len(D.HISTORICAL_DATA[toolId]) < 2
    THEN [has |-> FALSE]
    ELSE LET history == D.HISTORICAL_DATA[toolId]
             latest == history[Len(history)]
             compare == history[Len(history) - 1]
         IN  [has |-> TRUE,
              current |-> latest.downloads,
              previous |-> compare.downloads,
              growth_pct |-> calculateGrowth(latest.downloads, Num(compare.downloads)),
              period_months |-> months]

\* getGrowthMetrics(toolId, months): has |-> FALSE is the null result
getGrowthMetrics(toolId, months, D) ==
    IF toolId \notin DOMAIN D.HISTORICAL_DATA \/ Len(D.HISTORICAL_DATA[toolId]) < 2
    THEN [has |-> FALSE]
    ELSE LET history == D.HISTORICAL_DATA[toolId]
             latest == history[Len(history)]
             at == Len(history) - 1 - months
             compare == history[(IF at > 0 THEN at ELSE 0) + 1]
         IN  [has |-> TRUE,
              current |-> latest.downloads,
              previous |-> compare.downloads,
              growth_pct |-> calculateGrowth(latest.downloads, Num(compare.downloads)),
              period_months |-> months]

\* one entry of Object.entries(CURRENT_METRICS).map(([id, data]) => ({id, ...TOOLS[id], ...data}))
\* (the fields of an id that TOOLS does not hold are absent, as a spread of undefined adds none)
Merged(id, D) ==
    (IF id \in Ids(D.TOOLS) THEN Entry(D.TOOLS, id) ELSE [id |-> id])
    @@ (IF id \in Ids(D.CURRENT_METRICS) THEN Entry(D.CURRENT_METRICS, id) ELSE [id |-> id])

\* getToolsByMetric whose sort leaves entries of equal downloads in the reverse of
\* their insertion order
getToolsByMetric_tiesReversed(limit, D) ==
    sliceFirst(
        sort([i \in 1..Len(D.CURRENT_METRICS) |->
                 Merged(D.CURRENT_METRICS[Len(D.CURRENT_METRICS) + 1 - i].id, D)],
             LAMBDA a, b : b.npm_downloads_monthly - a.npm_downloads_monthly < 0),
        limit)

\* getToolsByMetric('npm_downloads_monthly', limit = 10)
getToolsByMetric(limit, D) ==
    sliceFirst(
        sort([i \in 1..Len(D.CURRENT_METRICS) |-> Merged(D.CURRENT_METRICS[i].id, D)],
             LAMBDA a, b : b.npm_downloads_monthly - a.npm_downloads_monthly < 0),
        limit)

\* searchTools whose keyword filter looks at the name only
searchTools_nameOnly(query, D) ==
    LET all == [i \in 1..Len(D.TOOLS) |-> Merged(D.TOOLS[i].id, D)]
        hasCategory == "category" \in DOMAIN query /\ query.category # ""
        hasMin == "min_downloads" \in DOMAIN query /\ query.min_downloads # 0
        hasKeyword == "keyword" \in DOMAIN query /\ query.keyword # ""
        r1 == IF hasCategory
              THEN filter(all, LAMBDA t : t.category = query.category)
              ELSE all
        r2 == IF hasMin
              THEN filter(r1, LAMBDA t : t.npm_downloads_monthly >= query.min_downloads)
              ELSE r1
        r3 == IF hasKeyword
              THEN filter(r2, LAMBDA t :
                       includes(toLowerCase(t.name), toLowerCase(query.keyword)))
              ELSE r2
    IN  r3

\* searchTools with the min_downloads filter reading the weekly figure
searchTools_weeklyDownloads(query, D) ==
    LET all == [i \in 1..Len(D.TOOLS) |-> Merged(D.TOOLS[i].id, D)]
        hasCategory == "category" \in DOMAIN query /\ query.category # ""
        hasMin == "min_downloads" \in DOMAIN query /\ query.min_downloads # 0
        hasKeyword == "keyword" \in DOMAIN query /\ query.keyword # ""
        r1 == IF hasCategory
              THEN filter(all, LAMBDA t : t.category = query.category)
              ELSE all
        r2 == IF hasMin
              THEN filter(r1, LAMBDA t : t.npm_downloads_weekly >= query.min_downloads)
              ELSE r1
        r3 == IF hasKeyword
              THEN filter(r2, LAMBDA t :
                       \/ includes(toLowerCase(t.name), toLowerCase(query.keyword))
                       \/ includes(toLowerCase(t.description), toLowerCase(query.keyword)))
              ELSE r2
    IN  r3

\* searchTools(query): query is a mapping that may hold category, min_downloads, keyword.
\* A filter is applied when its value is truthy (present, not 0, not "").
searchTools(query, D) ==
    LET all == [i \in 1..Len(D.TOOLS) |-> Merged(D.TOOLS[i].id, D)]
        hasCategory == "category" \in DOMAIN query /\ query.category # ""
        hasMin == "min_downloads" \in DOMAIN query /\ query.min_downloads # 0
        hasKeyword == "keyword" \in DOMAIN query /\ query.keyword # ""
        r1 == IF hasCategory
              THEN filter(all, LAMBDA t : t.category = query.category)
              ELSE all
        r2 == IF hasMin
              THEN filter(r1, LAMBDA t : t.npm_downloads_monthly >= query.min_downloads)
              ELSE r1
        r3 == IF hasKeyword
              THEN filter(r2, LAMBDA t :
                       \/ includes(toLowerCase(t.name), toLowerCase(query.keyword))
                       \/ includes(toLowerCase(t.description), toLowerCase(query.keyword)))
              ELSE r2
    IN  r3

-----------------------------------------------------------------------------
(* Arguments and outcomes of Operation.execute.                            *)

\* an arguments mapping is a function from the names it holds to their values
NoArgs == <<>>
Has(args, key) == key \in DOMAIN args
\* a destructuring default: const { key = default } = args
Get(args, key, default) == IF Has(args, key) THEN args[key] ELSE default

\* execute returned text
Returned(text, D, read) ==
    [kind |-> "returned", value |-> text, errName |-> "", D |-> D, read |-> read]
\* execute threw new <errName>(<message>)
Threw(errName, message, D, read) ==
    [kind |-> "threw", value |-> message, errName |-> errName, D |-> D, read |-> read]

-----------------------------------------------------------------------------
(* tools/compare.js: compare_tools on the dataset                          *)

\* an entry of comparison whose growth window is 1 month for 30d only
ComparisonEntry_monthFor30dOnly(id, time_range, D) ==
    LET tool == Entry(D.TOOLS, id)
        metrics == Entry(D.CURRENT_METRICS, id)
        growth == getGrowthMetrics(id, IF time_range = "30d" THEN 1 ELSE 3, D)
    IN  [id |-> id,
         name |-> tool.name,
         downloads_monthly |-> metrics.npm_downloads_monthly,
         downloads_weekly |-> metrics.npm_downloads_weekly,
         github_stars |-> metrics.github_stars,
         stackoverflow_questions |-> metrics.stackoverflow_questions_30d,
         reddit_mentions |-> metrics.reddit_mentions_30d,
         growth_pct |-> IF growth.has THEN growth.growth_pct ELSE Zero,
         last_updated |-> metrics.last_updated]

\* an entry of comparison that carries the tool's id where its name belongs
ComparisonEntry_idAsName(id, time_range, D) ==
    LET tool == Entry(D.TOOLS, id)
        metrics == Entry(D.CURRENT_METRICS, id)
        growth == getGrowthMetrics(id, IF time_range = "90d" THEN 3 ELSE 1, D)
    IN  [id |-> id,
         name |-> tool.id,
         downloads_monthly |-> metrics.npm_downloads_monthly,
         downloads_weekly |-> metrics.npm_downloads_weekly,
         github_stars |-> metrics.github_stars,
         stackoverflow_questions |-> metrics.stackoverflow_questions_30d,
         reddit_mentions |-> metrics.reddit_mentions_30d,
         growth_pct |-> IF growth.has THEN growth.growth_pct ELSE Zero,
         last_updated |-> metrics.last_updated]

\* one entry of comparison (lines 77-93)
ComparisonEntry(id, time_range, D) ==
    LET tool == Entry(D.TOOLS, id)
        metrics == Entry(D.CURRENT_METRICS, id)
        growth == getGrowthMetrics(id, IF time_range = "90d" THEN 3 ELSE 1, D)
    IN  [id |-> id,
         name |-> tool.name,
         downloads_monthly |-> metrics.npm_downloads_monthly,
         downloads_weekly |-> metrics.npm_downloads_weekly,
         github_stars |-> metrics.github_stars,
         stackoverflow_questions |-> metrics.stackoverflow_questions_30d,
         reddit_mentions |-> metrics.reddit_mentions_30d,
         growth_pct |-> IF growth.has THEN growth.growth_pct ELSE Zero,
         last_updated |-> metrics.last_updated]

\* the leader taken with >=, so that a later tool replaces an equal earlier one
compare_leader_lastOfTies(comparison) ==
    reduce(comparison, LAMBDA prev, curr :
        IF curr.downloads_monthly >= prev.downloads_monthly THEN curr ELSE prev)

\* the leader of lines 119-121
compare_leader(comparison) ==
    reduce(comparison, LAMBDA prev, curr :
        IF curr.downloads_monthly > prev.downloads_monthly THEN curr ELSE prev)

\* the fastest growing of lines 122-124
compare_fastestGrowing(comparison) ==
    reduce(comparison, LAMBDA prev, curr :
        IF RatLess(prev.growth_pct, curr.growth_pct) THEN curr ELSE prev)

\* the text of lines 96-130
compare_render(comparison, time_range) ==
    LET downloadsLine(tool) ==
            LET growthIcon == IF RatLess(Rat(5, 1), tool.growth_pct) THEN "[up]"
                              ELSE IF RatLess(tool.growth_pct, Rat(-5, 1)) THEN "[down]"
                              ELSE "[flat]"
            IN  Concat(<<"[bullet] ", tool.name, ": ",
                         compare_formatNumber(tool.downloads_monthly), "/month ",
                         growthIcon, " ", toFixed1(tool.growth_pct), "%\n">>)
        communityLines(tool) ==
            Concat(<<"[bullet] ", tool.name, ":\n",
                     "  - GitHub Stars: ", compare_formatNumber(tool.github_stars), "\n",
                     "  - Stack Overflow Questions: ", ToString(tool.stackoverflow_questions), "\n",
                     "  - Reddit Mentions: ", ToString(tool.reddit_mentions), "\n">>)
        leader == compare_leader(comparison)
        fastestGrowing == compare_fastestGrowing(comparison)
    IN  Concat(<<"[chart] AI Developer Tools Comparison\n",
                 "[calendar] Time Range: ", time_range, "\n\n",
                 "**NPM Downloads (Monthly)**\n",
                 Concat(map(comparison, downloadsLine)),
                 "\n",
                 "**Community Activity (Last 30 Days)**\n",
                 Concat(map(comparison, communityLines)),
                 "\n",
                 "**Key Insights**\n",
                 "[bullet] ", leader.name, " leads in adoption with ",
                 compare_formatNumber(leader.downloads_monthly), " monthly downloads\n",
                 "[bullet] ", fastestGrowing.name, " shows fastest growth at ",
                 toFixed1(fastestGrowing.growth_pct), "% over the period\n",
                 "\n_Data updated: ", comparison[1].last_updated, "_">>)

\* compareTool.execute that drops the ids it does not know instead of rejecting the call
compare_execute_skipsUnknown(args, D) ==
    IF ~Has(args, "tools")
    THEN Threw("TypeError", "Cannot read properties of undefined (reading 'filter')", D, FALSE)
    ELSE
    LET time_range == Get(args, "time_range", "30d")
        validTools == filter(args.tools, LAMBDA id : id \in Ids(D.TOOLS))
    IN  IF validTools = <<>>
        THEN Threw("TypeError", "Reduce of empty array with no initial value", D, TRUE)
        ELSE Returned(
                compare_render(map(validTools, LAMBDA id : ComparisonEntry(id, time_range, D)),
                               time_range),
                D, TRUE)

\* compareTool.execute(args)
compare_execute(args, D) ==
    IF ~Has(args, "tools")
    THEN Threw("TypeError", "Cannot read properties of undefined (reading 'filter')", D, FALSE)
    ELSE
    LET time_range == Get(args, "time_range", "30d")
        invalidTools == filter(args.tools, LAMBDA id : id \notin Ids(D.TOOLS))
    IN  IF Len(invalidTools) > 0
        THEN Threw("Error", "Unknown tools: " \o join(invalidTools, ", "), D, TRUE)
        ELSE IF args.tools = <<>>
        THEN Threw("TypeError", "Reduce of empty array with no initial value", D, TRUE)
        ELSE Returned(
                compare_render(map(args.tools, LAMBDA id : ComparisonEntry(id, time_range, D)),
                               time_range),
                D, TRUE)

-----------------------------------------------------------------------------
(* tools/trending.js: get_trending_tools on the dataset                    *)

\* toolsWithGrowth left in the order getToolsByMetric staged it in
trending_ranked_unsorted(time_range, category, D) ==
    LET all == getToolsByMetric(10, D)
        toolsList == IF category # "all"
                     THEN filter(all, LAMBDA t : t.category = category)
                     ELSE all
        months == IF time_range = "90d" THEN 3 ELSE 1
        withGrowth(tool) ==
            LET growth == getGrowthMetrics(tool.id, months, D)
            IN  [id |-> tool.id, name |-> tool.name, description |-> tool.description,
                 category |-> tool.category,
                 npm_downloads_monthly |-> tool.npm_downloads_monthly,
                 growth_pct |-> IF growth.has THEN growth.growth_pct ELSE Zero,
                 current_downloads |-> IF growth.has /\ growth.current # 0
                                       THEN growth.current
                                       ELSE tool.npm_downloads_monthly]
    IN  map(toolsList, withGrowth)

\* toolsWithGrowth of lines 50-69, sorted by growth rate
trending_ranked(time_range, category, D) ==
    LET all == getToolsByMetric(10, D)
        toolsList == IF category # "all"
                     THEN filter(all, LAMBDA t : t.category = category)
                     ELSE all
        months == IF time_range = "90d" THEN 3 ELSE 1
        withGrowth(tool) ==
            LET growth == getGrowthMetrics(tool.id, months, D)
            IN  [id |-> tool.id, name |-> tool.name, description |-> tool.description,
                 category |-> tool.category,
                 npm_downloads_monthly |-> tool.npm_downloads_monthly,
                 growth_pct |-> IF growth.has THEN growth.growth_pct ELSE Zero,
                 current_downloads |-> IF growth.has /\ growth.current # 0
                                       THEN growth.current
                                       ELSE tool.npm_downloads_monthly]
    IN  sort(map(toolsList, withGrowth), LAMBDA a, b : RatLess(b.growth_pct, a.growth_pct))

\* the entries of lines 72: the top limit
trending_top(time_range, limit, category, D) ==
    sliceFirst(trending_ranked(time_range, category, D), limit)

\* the text of lines 75-96
trending_render(trending, time_range, category) ==
    LET entry(i) ==
            LET tool == trending[i]
                growthIcon == IF RatLess(Rat(50, 1), tool.growth_pct) THEN "[fire]"
                              ELSE IF RatLess(Rat(20, 1), tool.growth_pct) THEN "[bolt]"
                              ELSE "[trend]"
            IN  Concat(<<ToString(i), ". ", growthIcon, " **", tool.name, "**\n",
                         "   - Growth: +", toFixed1(tool.growth_pct), "% over ", time_range, "\n",
                         "   - Current: ", trending_formatNumber(tool.current_downloads),
                         " downloads/month\n",
                         "   - ", tool.description, "\n">>)
    IN  Concat(<<"[rocket] Trending AI Developer Tools\n",
                 "[calendar] Period: ", time_range,
                 IF category # "all" THEN " | Category: " \o category ELSE "",
                 "\n\n",
                 "**Fastest Growing**\n",
                 Concat([i \in 1..Len(trending) |-> entry(i)]),
                 "\n_Growth calculated from ", time_range, " historical data_">>)

\* trendingTool.execute whose staging sort reaches the dataset: CURRENT_METRICS is
\* left sorted by monthly downloads
trending_execute_sortsMetrics(args, D) ==
    LET time_range == Get(args, "time_range", "30d")
        limit == Get(args, "limit", 5)
        category == Get(args, "category", "all")
    IN  Returned(trending_render(trending_top(time_range, limit, category, D),
                                 time_range, category),
                 [D EXCEPT !.CURRENT_METRICS =
                     sort(D.CURRENT_METRICS,
                          LAMBDA a, b : b.npm_downloads_monthly - a.npm_downloads_monthly < 0)],
                 TRUE)

\* trendingTool.execute whose limit defaults to 3, the least the schema allows
trending_execute_defaultThree(args, D) ==
    LET time_range == Get(args, "time_range", "30d")
        limit == Get(args, "limit", 3)
        category == Get(args, "category", "all")
    IN  Returned(trending_render(trending_top(time_range, limit, category, D),
                                 time_range, category),
                 D, TRUE)

\* trendingTool.execute(args)
trending_execute(args, D) ==
    LET time_range == Get(args, "time_range", "30d")
        limit == Get(args, "limit", 5)
        category == Get(args, "category", "all")
    IN  Returned(trending_render(trending_top(time_range, limit, category, D),
                                 time_range, category),
                 D, TRUE)

-----------------------------------------------------------------------------
(* tools/search.js: search_tools on the dataset                            *)

\* the place of a character in the collation order of localeCompare:
\* the space, then the punctuation and digits, then the letters whatever their case
Collation == " -@/0123456789abcdefghijklmnopqrstuvwxyz"

CollationRank(c) ==
    IF \E i \in 1..Len(Collation) : SubSeq(Collation, i, i) = c
    THEN CHOOSE i \in 1..Len(Collation) : SubSeq(Collation, i, i) = c
    ELSE 0

RECURSIVE LexLess(_, _)
LexLess(a, b) ==
    IF b = "" THEN FALSE
    ELSE IF a = "" THEN TRUE
    ELSE LET ra == CollationRank(SubSeq(a, 1, 1))
             rb == CollationRank(SubSeq(b, 1, 1))
         IN  IF ra # rb THEN ra < rb ELSE LexLess(Tail(a), Tail(b))

\* a.localeCompare(b) < 0
localeCompareLess(a, b) == LexLess(toLowerCase(a), toLowerCase(b))

\* the results with sort_by defaulting to 'name'
search_results_defaultName(args, D) ==
    LET sort_by == Get(args, "sort_by", "name")
        query == [k \in DOMAIN args \cap {"category", "min_downloads", "keyword"} |-> args[k]]
        results == searchTools(query, D)
    IN  IF sort_by = "downloads"
        THEN sort(results, LAMBDA a, b : b.npm_downloads_monthly - a.npm_downloads_monthly < 0)
        ELSE IF sort_by = "stars"
        THEN sort(results, LAMBDA a, b : b.github_stars - a.github_stars < 0)
        ELSE IF sort_by = "name"
        THEN sort(results, LAMBDA a, b : localeCompareLess(a.name, b.name))
        ELSE results

\* results of lines 59-68: the filtered tools, sorted in place
search_results(args, D) ==
    LET sort_by == Get(args, "sort_by", "downloads")
        query == [k \in DOMAIN args \cap {"category", "min_downloads", "keyword"} |-> args[k]]
        results == searchTools(query, D)
    IN  IF sort_by = "downloads"
        THEN sort(results, LAMBDA a, b : b.npm_downloads_monthly - a.npm_downloads_monthly < 0)
        ELSE IF sort_by = "stars"
        THEN sort(results, LAMBDA a, b : b.github_stars - a.github_stars < 0)
        ELSE IF sort_by = "name"
        THEN sort(results, LAMBDA a, b : localeCompareLess(a.name, b.name))
        ELSE results

\* activeFilters of lines 74-77 (formatNumber is the caller's)
search_activeFilters(args, minText) ==
    (IF Has(args, "category") /\ args.category # ""
     THEN <<"Category: " \o args.category>> ELSE <<>>)
    \o (IF Has(args, "min_downloads") /\ args.min_downloads # 0
        THEN <<"Min Downloads: " \o minText>> ELSE <<>>)
    \o (IF Has(args, "keyword") /\ args.keyword # ""
        THEN <<Concat(<<"Keyword: \"", args.keyword, "\"">>)>> ELSE <<>>)

\* Math.round(total / count) for total >= 0, count > 0
RoundedAverage(total, count) == (2 * total + count) \div (2 * count)

\* the text without the early return of lines 85-88: the summary is rendered over
\* zero results, and the average 0 / 0 prints as NaN
search_render_noEarlyReturn(results, args) ==
    LET sort_by == Get(args, "sort_by", "downloads")
        activeFilters ==
            search_activeFilters(args,
                IF Has(args, "min_downloads") THEN search_formatNumber(args.min_downloads) ELSE "")
        head ==
            "[search] AI Developer Tools Search Results\n\n"
            \o (IF Len(activeFilters) > 0
                THEN Concat(<<"**Filters:** ", join(activeFilters, " | "), "\n",
                              "**Sort:** ", sort_by, "\n\n">>)
                ELSE "")
        entry(i) ==
            LET tool == results[i]
            IN  Concat(<<ToString(i), ". **", tool.name, "** ([tick]", tool.package, "[tick])\n",
                         "   - ", tool.description, "\n",
                         "   - Category: ", tool.category, "\n",
                         "   - Monthly Downloads: ",
                         search_formatNumber(tool.npm_downloads_monthly), "\n",
                         "   - GitHub Stars: ", search_formatNumber(tool.github_stars), "\n",
                         "   - Community: ", ToString(tool.stackoverflow_questions_30d),
                         " SO questions, ", ToString(tool.reddit_mentions_30d),
                         " Reddit mentions (30d)\n\n">>)
        totalDownloads == Sum([i \in 1..Len(results) |-> results[i].npm_downloads_monthly])
    IN  Concat(<<head,
                 "**Found ", ToString(Len(results)), " tool",
                 IF Len(results) = 1 THEN "" ELSE "s", ":**\n\n",
                 Concat([i \in 1..Len(results) |-> entry(i)]),
                 "**Summary Statistics**\n",
                 "[bullet] Total Monthly Downloads: ",
                 search_formatNumber(totalDownloads), "\n",
                 "[bullet] Average per Tool: ",
                 IF Len(results) = 0 THEN "NaN"
                 ELSE search_formatNumber(RoundedAverage(totalDownloads, Len(results))),
                 "\n">>)

\* the text of lines 71-109
search_render(results, args) ==
    LET sort_by == Get(args, "sort_by", "downloads")
        activeFilters ==
            search_activeFilters(args,
                IF Has(args, "min_downloads") THEN search_formatNumber(args.min_downloads) ELSE "")
        head ==
            "[search] AI Developer Tools Search Results\n\n"
            \o (IF Len(activeFilters) > 0
                THEN Concat(<<"**Filters:** ", join(activeFilters, " | "), "\n",
                              "**Sort:** ", sort_by, "\n\n">>)
                ELSE "")
        entry(i) ==
            LET tool == results[i]
            IN  Concat(<<ToString(i), ". **", tool.name, "** ([tick]", tool.package, "[tick])\n",
                         "   - ", tool.description, "\n",
                         "   - Category: ", tool.category, "\n",
                         "   - Monthly Downloads: ",
                         search_formatNumber(tool.npm_downloads_monthly), "\n",
                         "   - GitHub Stars: ", search_formatNumber(tool.github_stars), "\n",
                         "   - Community: ", ToString(tool.stackoverflow_questions_30d),
                         " SO questions, ", ToString(tool.reddit_mentions_30d),
                         " Reddit mentions (30d)\n\n">>)
        totalDownloads == Sum([i \in 1..Len(results) |-> results[i].npm_downloads_monthly])
    IN  IF Len(results) = 0
        THEN head \o "No tools found matching your criteria."
        ELSE Concat(<<head,
                      "**Found ", ToString(Len(results)), " tool",
                      IF Len(results) = 1 THEN "" ELSE "s", ":**\n\n",
                      Concat([i \in 1..Len(results) |-> entry(i)]),
                      "**Summary Statistics**\n",
                      "[bullet] Total Monthly Downloads: ",
                      search_formatNumber(totalDownloads), "\n",
                      "[bullet] Average per Tool: ",
                      search_formatNumber(RoundedAverage(totalDownloads, Len(results))), "\n">>)

\* searchTool.execute whose sort reaches the dataset: TOOLS is left sorted by
\* monthly downloads
search_execute_sortsTools(args, D) ==
    Returned(search_render(search_results(args, D), args),
             [D EXCEPT !.TOOLS =
                 sort(D.TOOLS,
                      LAMBDA a, b : Entry(D.CURRENT_METRICS, b.id).npm_downloads_monthly
                                        < Entry(D.CURRENT_METRICS, a.id).npm_downloads_monthly)],
             TRUE)

\* searchTool.execute(args)
search_execute(args, D) ==
    Returned(search_render(search_results(args, D), args), D, TRUE)

-----------------------------------------------------------------------------
(* get_tool_history on the dataset (the direct-dataset history tool)       *)

MonthNames ==
    <<"Jan", "Feb", "Mar", "Apr", "May", "Jun", "Jul", "Aug", "Sep", "Oct", "Nov", "Dec">>

TwoDigits == <<"01", "02", "03", "04", "05", "06", "07", "08", "09", "10", "11", "12">>

\* formatDate(monthStr): new Date(monthStr + '-01') shown as { year: 'numeric', month: 'short' }
\* in en-US, in a time zone where the first of the month at 00:00 UTC is still that day
formatDate(monthStr) ==
    LET mm == SubSeq(monthStr, 6, 7)
        m == CHOOSE i \in 1..12 : TwoDigits[i] = mm
    IN  MonthNames[m] \o " " \o SubSeq(monthStr, 1, 4)

\* the report with the growth rate taken over the points returned, not over months
history_render_byCount(toolInfo, currentMetrics, dataPoints, months) ==
    LET firstMonth == dataPoints[1]
        lastMonth == dataPoints[Len(dataPoints)]
        totalGrowth == calculateGrowth(lastMonth.downloads, Num(firstMonth.downloads))
        pointLine(point) ==
            Concat(<<"[bullet] ", formatDate(point.month), ": ",
                     history_formatNumber(point.downloads), "\n">>)
    IN  Concat(<<"[trend] ", toolInfo.name, " - Historical Adoption\n\n",
                 "**", toolInfo.description, "**\n",
                 "Package: [tick]", toolInfo.package, "[tick]\n",
                 "Category: ", toolInfo.category, "\n\n",
                 "**Download History (Monthly)**\n",
                 Concat(map(dataPoints, pointLine)),
                 "\n",
                 "**Growth Analysis**\n",
                 "[bullet] Period: ", formatDate(firstMonth.month), " to ",
                 formatDate(lastMonth.month), "\n",
                 "[bullet] Total Growth: ", IF RatLess(Zero, totalGrowth) THEN "+" ELSE "",
                 toFixed1(totalGrowth), "%\n",
                 "[bullet] Growth Rate: ", toFixed1(RatDiv(totalGrowth, Len(dataPoints))),
                 "% per month\n\n",
                 "**Current Metrics**\n",
                 "[bullet] Monthly Downloads: ",
                 history_formatNumber(currentMetrics.npm_downloads_monthly), "\n",
                 "[bullet] GitHub Stars: ", history_formatNumber(currentMetrics.github_stars), "\n",
                 "[bullet] Community Activity: ",
                 ToString(currentMetrics.stackoverflow_questions_30d), " SO questions, ",
                 ToString(currentMetrics.reddit_mentions_30d), " Reddit mentions (30d)\n",
                 "\n_Last updated: ", currentMetrics.last_updated, "_">>)

\* the text of lines 66-93
history_render(toolInfo, currentMetrics, dataPoints, months) ==
    LET firstMonth == dataPoints[1]
        lastMonth == dataPoints[Len(dataPoints)]
        totalGrowth == calculateGrowth(lastMonth.downloads, Num(firstMonth.downloads))
        pointLine(point) ==
            Concat(<<"[bullet] ", formatDate(point.month), ": ",
                     history_formatNumber(point.downloads), "\n">>)
    IN  Concat(<<"[trend] ", toolInfo.name, " - Historical Adoption\n\n",
                 "**", toolInfo.description, "**\n",
                 "Package: [tick]", toolInfo.package, "[tick]\n",
                 "Category: ", toolInfo.category, "\n\n",
                 "**Download History (Monthly)**\n",
                 Concat(map(dataPoints, pointLine)),
                 "\n",
                 "**Growth Analysis**\n",
                 "[bullet] Period: ", formatDate(firstMonth.month), " to ",
                 formatDate(lastMonth.month), "\n",
                 "[bullet] Total Growth: ", IF RatLess(Zero, totalGrowth) THEN "+" ELSE "",
                 toFixed1(totalGrowth), "%\n",
                 "[bullet] Growth Rate: ", toFixed1(RatDiv(totalGrowth, months)),
                 "% per month\n\n",
                 "**Current Metrics**\n",
                 "[bullet] Monthly Downloads: ",
                 history_formatNumber(currentMetrics.npm_downloads_monthly), "\n",
                 "[bullet] GitHub Stars: ", history_formatNumber(currentMetrics.github_stars), "\n",
                 "[bullet] Community Activity: ",
                 ToString(currentMetrics.stackoverflow_questions_30d), " SO questions, ",
                 ToString(currentMetrics.reddit_mentions_30d), " Reddit mentions (30d)\n",
                 "\n_Last updated: ", currentMetrics.last_updated, "_">>)

\* historyTool.execute that cuts its window one point short: history.slice(-months + 1)
history_execute_offByOne(args, D) ==
    LET months == Get(args, "months", 6) IN
    IF ~Has(args, "tool") THEN Threw("Error", "Unknown tool: undefined", D, TRUE)
    ELSE IF args.tool \notin Ids(D.TOOLS)
    THEN Threw("Error", "Unknown tool: " \o args.tool, D, TRUE)
    ELSE
    LET toolInfo == Entry(D.TOOLS, args.tool)
        history == D.HISTORICAL_DATA[args.tool]
        currentMetrics == Entry(D.CURRENT_METRICS, args.tool)
    IN  IF Len(history) = 0
        THEN Returned("No historical data available for " \o toolInfo.name, D, TRUE)
        ELSE LET sliced == slice(history, -months + 1)
                 after == [D EXCEPT !.HISTORICAL_DATA[args.tool] = sliced.receiver]
             IN  Returned(history_render(toolInfo, currentMetrics, sliced.result, months),
                          after, TRUE)

\* historyTool.execute(args), direct-dataset implementation
history_execute(args, D) ==
    LET months == Get(args, "months", 6) IN
    IF ~Has(args, "tool") THEN Threw("Error", "Unknown tool: undefined", D, TRUE)
    ELSE IF args.tool \notin Ids(D.TOOLS)
    THEN Threw("Error", "Unknown tool: " \o args.tool, D, TRUE)
    ELSE
    LET toolInfo == Entry(D.TOOLS, args.tool)
        history == D.HISTORICAL_DATA[args.tool]
        currentMetrics == Entry(D.CURRENT_METRICS, args.tool)
    IN  IF Len(history) = 0
        THEN Returned("No historical data available for " \o toolInfo.name, D, TRUE)
        ELSE LET sliced == slice(history, -months)
                 after == [D EXCEPT !.HISTORICAL_DATA[args.tool] = sliced.receiver]
             IN  Returned(history_render(toolInfo, currentMetrics, sliced.result, months),
                          after, TRUE)

-----------------------------------------------------------------------------
(* The data functions the API client calls and mock-data.js does not hold  *)
(* (getCurrentMetrics, getHistoricalData, getTrendingTools): the Dataset   *)
(* contract and the Trending procedure.                                    *)

\* getCurrentMetrics(toolId): the tool's record and metrics snapshot, or not found
getCurrentMetrics(toolId, D) ==
    IF toolId \in Ids(D.TOOLS) /\ toolId \in Ids(D.CURRENT_METRICS)
    THEN [has |-> TRUE, data |-> Merged(toolId, D)]
    ELSE [has |-> FALSE]

\* getHistoricalData(toolId, months): up to the last months history points, in
\* ascending month order; none for an unknown id
getHistoricalData(toolId, months, D) ==
    IF toolId \in DOMAIN D.HISTORICAL_DATA
    THEN slice(D.HISTORICAL_DATA[toolId], -months).result
    ELSE <<>>

\* getTrendingTools(time_range, limit, category): the category's tools ranked by
\* growth over the window of time_range, cut to limit
mockData_getTrendingTools(time_range, limit, category, D) ==
    trending_top(time_range, limit, category, D)

-----------------------------------------------------------------------------
(* The API client (class ApiClient)                                        *)

\* _successResponse(data)
successResponse(data) ==
    [status |-> 200, ok |-> TRUE, data |-> data, hasData |-> TRUE,
     error |-> [message |-> ""], hasError |-> FALSE]

\* _errorResponse(status, message)
errorResponse(status, message) ==
    [status |-> status, ok |-> FALSE, data |-> <<>>, hasData |-> FALSE,
     error |-> [message |-> message], hasError |-> TRUE]

\* getToolMetrics that answers 200 whatever the lookup found
getToolMetrics_noNotFound(toolId, D) ==
    LET data == getCurrentMetrics(toolId, D)
    IN  IF data.has THEN successResponse(data.data)
        ELSE [status |-> 200, ok |-> TRUE, data |-> <<>>, hasData |-> FALSE,
              error |-> [message |-> ""], hasError |-> FALSE]

\* ApiClient.getToolMetrics(toolId): toolId is "undefined" when absent
getToolMetrics(toolId, D) ==
    LET data == getCurrentMetrics(toolId, D)
    IN  IF ~data.has
        THEN errorResponse(404, Concat(<<"Tool '", toolId, "' not found">>))
        ELSE successResponse(data.data)

\* ApiClient.getTrendingTools(params): given is "undefined" (params takes its
\* default {}), "null" (the destructuring throws inside the try) or "object"
getTrendingTools(given, params, D) ==
    IF given = "null"
    THEN errorResponse(500,
             "Cannot destructure property 'time_range' of 'params' as it is null.")
    ELSE LET p == IF given = "undefined" THEN NoArgs ELSE params
             time_range == Get(p, "time_range", "30d")
             limit == Get(p, "limit", 5)
             category == Get(p, "category", "all")
         IN  successResponse(
                 [tools |-> mockData_getTrendingTools(time_range, limit, category, D),
                  time_range |-> time_range, category |-> category])

\* ApiClient.compareTools(toolIds, timeRange): hasIds is whether toolIds is defined
compareTools(hasIds, toolIds, timeRange, D) ==
    IF ~hasIds
    THEN errorResponse(400, "Cannot read properties of undefined (reading 'map')")
    ELSE LET missing == filter(toolIds, LAMBDA id : ~getCurrentMetrics(id, D).has)
         IN  IF Len(missing) > 0
             THEN errorResponse(400, Concat(<<"Tool '", missing[1], "' not found">>))
             ELSE successResponse(
                      [tools |-> map(toolIds, LAMBDA id : getCurrentMetrics(id, D).data),
                       time_range |-> timeRange])

\* ApiClient.searchTools(searchParams): given is "undefined" (searchParams takes
\* its default {}), "null" (searchTools of mock-data.js:178 throws on destructuring
\* it, inside the try) or "object"
client_searchTools(given, searchParams, D) ==
    IF given = "null"
    THEN errorResponse(500,
             "Cannot destructure property 'category' of 'query' as it is null.")
    ELSE LET p == IF given = "undefined" THEN NoArgs ELSE searchParams
             results == searchTools(p, D)
         IN  successResponse([results |-> results, count |-> Len(results),
                              filters |-> p])

\* getToolHistory that answers 404 when fewer points than months are stored
getToolHistory_failsShort(toolId, months, D) ==
    LET history == getHistoricalData(toolId, months, D)
    IN  IF Len(history) < months
        THEN errorResponse(404, Concat(<<"No history found for '", toolId, "'">>))
        ELSE successResponse([tool_id |-> toolId, months |-> months, data |-> history])

\* ApiClient.getToolHistory(toolId, months): toolId is "undefined" when absent
getToolHistory(toolId, months, D) ==
    LET history == getHistoricalData(toolId, months, D)
    IN  IF Len(history) = 0
        THEN errorResponse(404, Concat(<<"No history found for '", toolId, "'">>))
        ELSE successResponse([tool_id |-> toolId, months |-> months, data |-> history])

-----------------------------------------------------------------------------
(* The formatters                                                          *)

\* formatError(error, context), error.message a non-empty string
formatError(message, context) ==
    Concat(<<"[cross] ",
             IF context # "" THEN Concat(<<"Unable to ", context, ": ">>) ELSE "",
             message,
             IF includes(message, "not found")
             THEN "\n\nTry searching for available tools first, or check the tool name spelling."
             ELSE IF includes(message, "timeout")
             THEN "\n\nPlease try again in a moment."
             ELSE "">>)

\* fastest of lines 35-37: a comparison with an absent growth_pct (undefined) is false
formatComparison_fastest(list) ==
    reduce(list, LAMBDA max, tool :
        IF /\ "growth_pct" \in DOMAIN tool
           /\ "growth_pct" \in DOMAIN max
           /\ RatLess(max.growth_pct, tool.growth_pct)
        THEN tool ELSE max)

\* mostPopular of lines 39-41
formatComparison_mostPopular(list) ==
    reduce(list, LAMBDA max, tool :
        IF tool.npm_downloads_monthly > max.npm_downloads_monthly THEN tool ELSE max)

\* formatComparison(apiResponse, timeRange). The records of the API response hold
\* no growth_indicator and no growth_pct: both render as "undefined", and
\* undefined > undefined is false, so the fastest is the first tool.
formatComparison(apiResponse, timeRange) ==
    LET list == apiResponse.tools
        entry(i) ==
            LET tool == list[i]
            IN  Concat(<<"**", ToString(i), ". ", tool.name, "** ([tick]", tool.package, "[tick])\n",
                         "   [bullet] Monthly Downloads: ",
                         formatNumber(tool.npm_downloads_monthly), " ",
                         "(undefined undefined% vs last period)\n",
                         "   [bullet] GitHub Stars: ", formatNumber(tool.github_stars), "\n",
                         "   [bullet] Community: ", ToString(tool.stackoverflow_questions_30d),
                         " SO questions, ",
                         ToString(tool.reddit_mentions_30d), " Reddit mentions\n\n">>)
        fastest == formatComparison_fastest(list)
        mostPopular == formatComparison_mostPopular(list)
    IN  IF Len(list) = 0 THEN "No tools found for comparison."
        ELSE Concat(<<"[chart] Comparing ", ToString(Len(list)), " AI Developer Tools (",
                      timeRange, ")\n\n",
                      Concat([i \in 1..Len(list) |-> entry(i)]),
                      "**Key Insights:**\n",
                      "[bullet] **Fastest Growing:** ", fastest.name, " (+undefined%)\n",
                      "[bullet] **Most Downloads:** ", mostPopular.name, " ",
                      "(", formatNumber(mostPopular.npm_downloads_monthly), "/month)\n">>)

\* Of the quotients totalGrowth / months that formatHistory renders (totalGrowth in
\* tenths), the ones that are a decimal tie x.x5 whose double lies below the tie,
\* so that toFixed(1) rounds it down: 39.3 / 6 is 6.5499999999999998...
QuotientBelowTie == {<<393, 6>>}

\* formatHistory(apiResponse, toolId, months), for a first point with downloads > 0
formatHistory(apiResponse, toolId, months) ==
    LET data == apiResponse.data
        first == data[1]
        last == data[Len(data)]
        growth == Rat((last.downloads - first.downloads) * 100, first.downloads)
        \* totalGrowth is the text of toFixed(1); as a number again, it is tenths / 10
        totalGrowth == toFixed1(growth)
        tenths == IF growth.n < 0 THEN -Tenths([n |-> -growth.n, d |-> growth.d])
                  ELSE Tenths(growth)
        avg == Rat(tenths, 10 * months)
        avgMonthlyGrowth == IF <<tenths, months>> \in QuotientBelowTie
                            THEN TenthsText(Tenths(avg) - 1)
                            ELSE toFixed1(avg)
        avgPositive == IF avg.n < 0 THEN FALSE ELSE Tenths(avg) > 0
        pointLine(point) ==
            Concat(<<point.month, ": ", formatNumber(point.downloads), " downloads\n">>)
    IN  IF Len(data) = 0 THEN Concat(<<"No historical data found for ", toolId, ".">>)
        ELSE Concat(<<"[trend] ", toUpperCase(toolId), " - ", ToString(months),
                      " Month History\n\n",
                      "**Download Trend:**\n",
                      Concat(map(data, pointLine)),
                      "\n**Growth Analysis:**\n",
                      "[bullet] Total Growth: ", IF tenths > 0 THEN "+" ELSE "", totalGrowth,
                      "% over ", ToString(months), " months\n",
                      "[bullet] Average Monthly: ", IF avgPositive THEN "+" ELSE "",
                      avgMonthlyGrowth, "%\n",
                      "[bullet] Current: ", formatNumber(last.downloads), " downloads/month\n">>)

\* formatSearchResults(apiResponse, filters)
formatSearchResults(apiResponse, filters) ==
    LET results == apiResponse.results
        count == apiResponse.count
        activeFilters ==
            search_activeFilters(filters,
                IF Has(filters, "min_downloads") THEN formatNumber(filters.min_downloads) ELSE "")
        entry(i) ==
            LET tool == results[i]
            IN  Concat(<<ToString(i), ". **", tool.name, "** ([tick]", tool.package, "[tick])\n",
                         "   ", tool.description, "\n",
                         "   [bullet] ", formatNumber(tool.npm_downloads_monthly),
                         " downloads/month\n",
                         "   [bullet] ", formatNumber(tool.github_stars), " GitHub stars\n",
                         "   [bullet] Category: ", tool.category, "\n\n">>)
        totalDownloads == Sum([i \in 1..Len(results) |-> results[i].npm_downloads_monthly])
    IN  IF count = 0 THEN "No tools found matching your search criteria."
        ELSE Concat(<<"[search] AI Developer Tools Search Results\n\n",
                      IF Len(activeFilters) > 0
                      THEN Concat(<<"**Filters:** ", join(activeFilters, " | "), "\n",
                                    "**Found:** ", ToString(count), " tool",
                                    IF count = 1 THEN "" ELSE "s", "\n\n">>)
                      ELSE "",
                      Concat([i \in 1..Len(results) |-> entry(i)]),
                      "**Summary:**\n",
                      "[bullet] Total Monthly Downloads: ", formatNumber(totalDownloads), "\n",
                      "[bullet] Average per Tool: ",
                      formatNumber(RoundedAverage(totalDownloads, Len(results))), "\n">>)

-----------------------------------------------------------------------------
(* The tool modules that go through the API client                         *)

\* compareTool.execute(args), API-client implementation
api_compare_execute(args, D) ==
    LET time_range == Get(args, "time_range", "30d")
        response == compareTools(Has(args, "tools"), Get(args, "tools", <<>>), time_range, D)
    IN  IF ~response.ok
        THEN Returned(formatError(response.error.message, "compare tools"), D, Has(args, "tools"))
        ELSE Returned(formatComparison(response.data, time_range), D, TRUE)

\* historyTool.execute without its catch block: the Error of line 41 leaves execute
api_history_execute_rethrows(args, D) ==
    LET months == Get(args, "months", 6)
        tool == Get(args, "tool", "undefined")
        response == getToolHistory(tool, months, D)
    IN  IF ~response.ok
        THEN Threw("Error", response.error.message, D, TRUE)
        ELSE Returned(formatHistory(response.data, tool, months), D, TRUE)

\* historyTool.execute(args), API-client implementation (tools/history.js)
api_history_execute(args, D) ==
    LET months == Get(args, "months", 6)
        tool == Get(args, "tool", "undefined")
        response == getToolHistory(tool, months, D)
    IN  IF ~response.ok
        THEN Returned(formatError(response.error.message, "get tool history"), D, TRUE)
        ELSE Returned(formatHistory(response.data, tool, months), D, TRUE)

\* searchTool.execute(args), API-client implementation
api_search_execute(args, D) ==
    LET sort_by == Get(args, "sort_by", "downloads")
        searchParams ==
            [k \in DOMAIN args \cap {"category", "min_downloads", "keyword"} |-> args[k]]
            @@ [sort_by |-> sort_by]
        response == client_searchTools("object", searchParams, D)
    IN  IF ~response.ok
        THEN Returned(formatError(response.error.message, "search tools"), D, TRUE)
        ELSE Returned(formatSearchResults(response.data, args), D, TRUE)

-----------------------------------------------------------------------------
(* index.js: the registry and the tools/call handler                       *)

\* the names of the four tools (the name field of each tool module)
ToolNames == {"compare_tools", "get_trending_tools", "get_tool_history", "search_tools"}

\* The implementations of each tool that the repository holds: "dataset" reads
\* mock-data.js directly, "api" goes through the API client and the formatters.
Implementations ==
    [n \in ToolNames |->
        IF n = "get_trending_tools" THEN {"dataset"} ELSE {"dataset", "api"}]

\* const tools = [compareTool, trendingTool, historyTool, searchTool] with the imports
\* of lines 29-32 resolved to the files under tools/: compare.js, trending.js and
\* search.js read the dataset, history.js goes through the API client
ImportedRegistry ==
    [n \in ToolNames |-> IF n = "get_tool_history" THEN "api" ELSE "dataset"]

\* the same registry with the second implementation of compare, history and search
\* (the tool modules whose file names are not known) in the place of its namesake
AlternateRegistry ==
    [n \in ToolNames |->
        IF n \in {"get_tool_history", "get_trending_tools"} THEN "dataset" ELSE "api"]

\* The registries explored. The tools of a registry share nothing but the dataset,
\* so the two registries together run every implementation of every tool.
Registries ==
    {r \in {ImportedRegistry, AlternateRegistry} : \A n \in ToolNames : r[n] \in Implementations[n]}

\* tool.execute(args) of the module registered under name
Execute(name, impl, args, D) ==
    CASE name = "compare_tools" /\ impl = "dataset" -> compare_execute(args, D)
      [] name = "compare_tools" /\ impl = "api" -> api_compare_execute(args, D)
      [] name = "get_trending_tools" -> trending_execute(args, D)
      [] name = "get_tool_history" /\ impl = "dataset" -> history_execute(args, D)
      [] name = "get_tool_history" /\ impl = "api" -> api_history_execute(args, D)
      [] name = "search_tools" /\ impl = "dataset" -> search_execute(args, D)
      [] name = "search_tools" /\ impl = "api" -> api_search_execute(args, D)

\* the handler without its catch block: what execute throws leaves the handler
HandlerResult_noCatch(out) ==
    IF out.kind = "returned"
    THEN [kind |-> "result", content |-> <<[type |-> "text", text |-> out.value]>>,
          hasIsError |-> FALSE, isError |-> FALSE, message |-> ""]
    ELSE [kind |-> "thrown", content |-> <<>>, hasIsError |-> FALSE, isError |-> FALSE,
          message |-> out.value]

\* the handler's return value: lines 123-130 on success, lines 136-144 in the catch
HandlerResult(out) ==
    IF out.kind = "returned"
    THEN [kind |-> "result", content |-> <<[type |-> "text", text |-> out.value]>>,
          hasIsError |-> FALSE, isError |-> FALSE, message |-> ""]
    ELSE [kind |-> "result", content |-> <<[type |-> "text", text |-> "Error: " \o out.value]>>,
          hasIsError |-> TRUE, isError |-> TRUE, message |-> ""]

\* the unknown name answered with an error result instead of a throw
HandlerThrown_asErrorResult(message) ==
    [kind |-> "result", content |-> <<[type |-> "text", text |-> "Error: " \o message]>>,
     hasIsError |-> TRUE, isError |-> TRUE, message |-> ""]

\* the handler throws (lines 113-115): nothing is returned
HandlerThrown(message) ==
    [kind |-> "thrown", content |-> <<>>, hasIsError |-> FALSE, isError |-> FALSE,
     message |-> message]

NoRequest == [name |-> "", hasArgs |-> FALSE, args |-> NoArgs]
\* no helper is under evaluation on its own; no calls are in flight side by side
NoFn == [name |-> "none"]
NoRet == [done |-> FALSE]
NoCalls == <<>>
NoExec == [kind |-> "none", value |-> "", errName |-> "", read |-> FALSE]
NoResponse ==
    [kind |-> "none", content |-> <<>>, hasIsError |-> FALSE, isError |-> FALSE, message |-> ""]

-----------------------------------------------------------------------------
(* The requests explored.                                                  *)

LimitMinimum == 3
LimitMaximum == 10
MonthsMinimum == 3
MonthsMaximum == 12

KnownIds == {"openai", "anthropic", "cursor", "copilot", "langchain"}
UnknownId == "gemini"
IdUniverse == KnownIds \cup {UnknownId}

\* a key that is absent, or present with one of the values
Opt(key, values) == {NoArgs} \cup {key :> v : v \in values}

TimeRangeOpts == Opt("time_range", {"7d", "30d", "90d", "1y"})

ToolLists == UNION {[1..n -> IdUniverse] : n \in 0..MaxToolsLen}

CompareArgs == {a @@ b : a \in Opt("tools", ToolLists), b \in TimeRangeOpts}

TrendingArgs ==
    {a @@ b @@ c :
        a \in TimeRangeOpts,
        b \in Opt("limit", (LimitMinimum - Slack)..(LimitMaximum + Slack)),
        c \in Opt("category", {"llm-api", "editor", "assistant", "framework", "all", "database"})}

HistoryArgs ==
    {a @@ b :
        a \in Opt("tool", IdUniverse),
        b \in Opt("months", (MonthsMinimum - Slack)..(MonthsMaximum + Slack))}

SearchArgs ==
    {a @@ b @@ c @@ d :
        a \in Opt("category", {"llm-api", "editor", "assistant", "framework", "database"}),
        b \in Opt("min_downloads", {-1, 0, 5000000, 10000000, 13925001}),
        c \in Opt("keyword", {"sdk", "AI", "zzz"}),
        d \in Opt("sort_by", {"downloads", "stars", "name", "rating"})}

ArgsOf(name) ==
    CASE name = "compare_tools" -> CompareArgs
      [] name = "get_trending_tools" -> TrendingArgs
      [] name = "get_tool_history" -> HistoryArgs
      [] name = "search_tools" -> SearchArgs

\* names that no tool module carries
UnknownNames == {"delete_tool", ""}

-----------------------------------------------------------------------------
(* The state machine of a call.                                            *)

Init ==
    /\ TOOLS = TOOLS_0
    /\ CURRENT_METRICS = CURRENT_METRICS_0
    /\ HISTORICAL_DATA = HISTORICAL_DATA_0
    /\ tools \in Registries
    /\ pc = "Idle"
    /\ req = NoRequest
    /\ exec = NoExec
    /\ resp = NoResponse
    /\ anyFailed = FALSE
    /\ fn = NoFn
    /\ ret = NoRet
    /\ calls = NoCalls

\* tools.find(t => t.name === name)
find(name) == IF name \in DOMAIN tools THEN name ELSE "none"

\* A tools/call request for a registered name arrives: the handler finds the tool
\* and awaits tool.execute(args || {}) (lines 109-119).
Invoke(name, hasArgs, args) ==
    /\ pc = "Idle"
    /\ find(name) # "none"
    /\ req' = [name |-> name, hasArgs |-> hasArgs, args |-> IF hasArgs THEN args ELSE NoArgs]
    /\ pc' = "Executing"
    /\ UNCHANGED <<TOOLS, CURRENT_METRICS, HISTORICAL_DATA, tools, exec, resp, anyFailed,
                   fn, ret, calls>>

\* A tools/call request for a name that no registered tool has: the handler
\* throws before its try block (lines 112-115).
InvokeUnknown(name, hasArgs, args) ==
    /\ pc = "Idle"
    /\ find(name) = "none"
    /\ req' = [name |-> name, hasArgs |-> hasArgs, args |-> IF hasArgs THEN args ELSE NoArgs]
    /\ resp' = HandlerThrown("Unknown tool: " \o name)
    /\ pc' = "Responded"
    /\ UNCHANGED <<TOOLS, CURRENT_METRICS, HISTORICAL_DATA, tools, exec, anyFailed,
                   fn, ret, calls>>

\* tool.execute settles and the handler returns (lines 117-145)
Complete ==
    /\ pc = "Executing"
    /\ \E out \in {Execute(req.name, tools[req.name], req.args, Dataset)} :
           /\ exec' = [kind |-> out.kind, value |-> out.value, errName |-> out.errName,
                       read |-> out.read]
           /\ resp' = HandlerResult(out)
           /\ TOOLS' = out.D.TOOLS
           /\ CURRENT_METRICS' = out.D.CURRENT_METRICS
           /\ HISTORICAL_DATA' = out.D.HISTORICAL_DATA
    /\ pc' = "Responded"
    /\ UNCHANGED <<tools, req, anyFailed, fn, ret, calls>>

\* the call failed: the handler threw, or flagged an error, or the tool returned
\* the text of formatError
CallFailed ==
    \/ resp.kind = "thrown"
    \/ resp.isError
    \/ (exec.kind = "returned" /\ startsWith(exec.value, "[cross] "))

\* the response is handed to the transport and the call is over
Return ==
    /\ pc = "Responded"
    /\ pc' = "Idle"
    /\ anyFailed' = (anyFailed \/ CallFailed)
    /\ req' = NoRequest
    /\ exec' = NoExec
    /\ resp' = NoResponse
    /\ UNCHANGED <<TOOLS, CURRENT_METRICS, HISTORICAL_DATA, tools, fn, ret, calls>>

Next ==
    \/ \E name \in ToolNames : \E args \in ArgsOf(name) : Invoke(name, TRUE, args)
    \/ \E name \in ToolNames : Invoke(name, FALSE, NoArgs)
    \/ \E name \in UnknownNames : \E hasArgs \in BOOLEAN : InvokeUnknown(name, hasArgs, NoArgs)
    \/ Complete
    \/ Return

Spec == Init /\ [][Next]_vars

TypeOK ==
    /\ pc \in {"Idle", "Executing", "Responded"}
    /\ tools \in Registries
    /\ anyFailed \in BOOLEAN
    /\ resp.kind \in {"none", "result", "thrown"}
    /\ exec.kind \in {"none", "returned", "threw"}

-----------------------------------------------------------------------------
(* The declared input schemas (inputSchema of each tool module).           *)

MinItems == 2
MaxItems == 3
MinDownloadsMinimum == 0

TimeRangeEnum == {"7d", "30d", "90d"}
ToolEnum == {"openai", "anthropic", "cursor", "copilot", "langchain"}

\* args satisfies the inputSchema of the tool called name
SchemaValid(name, args) ==
    CASE name = "compare_tools" ->
            /\ Has(args, "tools")
            /\ Len(args.tools) >= MinItems /\ Len(args.tools) <= MaxItems
            /\ \A i \in 1..Len(args.tools) : args.tools[i] \in ToolEnum
            /\ Has(args, "time_range") => args.time_range \in TimeRangeEnum
      [] name = "get_trending_tools" ->
            /\ Has(args, "time_range") => args.time_range \in TimeRangeEnum
            /\ Has(args, "limit") => (args.limit >= LimitMinimum /\ args.limit <= LimitMaximum)
            /\ Has(args, "category") =>
                   args.category \in {"llm-api", "editor", "assistant", "framework", "all"}
      [] name = "get_tool_history" ->
            /\ Has(args, "tool") /\ args.tool \in ToolEnum
            /\ Has(args, "months") =>
                   (args.months >= MonthsMinimum /\ args.months <= MonthsMaximum)
      [] name = "search_tools" ->
            /\ Has(args, "category") =>
                   args.category \in {"llm-api", "editor", "assistant", "framework"}
            /\ Has(args, "min_downloads") => args.min_downloads >= MinDownloadsMinimum
            /\ Has(args, "sort_by") => args.sort_by \in {"downloads", "stars", "name"}

-----------------------------------------------------------------------------
(* Properties.                                                             *)

\* the text payload of a response that has one
TextOf(r) == r.content[1].text

\* the call in flight is a call of the tool called name, answered
Answered(name) == pc = "Responded" /\ req.name = name

\* the operation of this call failed: execute threw, or returned the text of formatError
OperationFailed ==
    \/ exec.kind = "threw"
    \/ (exec.kind = "returned" /\ startsWith(exec.value, "[cross] "))

\* the name of a fixture tool
NameOf(id) == Entry(TOOLS_0, id).name

\* how many entries of a list are id
CountIn(list, id) == Cardinality({i \in 1..Len(list) : list[i] = id})

(* C1: whenever Operation.execute raises a failure, whichever the operation and
   the arguments, the handler does not throw: it returns one text payload
   "Error: <message>" with the error flag set. *)
C1_FailureIsCaught ==
    (pc = "Responded" /\ exec.kind = "threw") =>
        /\ resp.kind = "result"
        /\ Len(resp.content) = 1
        /\ TextOf(resp) = "Error: " \o exec.value
        /\ resp.hasIsError /\ resp.isError

\* a failure raised deep inside rendering (the reduce over an empty comparison) was caught
C1_Witness ==
    /\ pc = "Responded"
    /\ exec.kind = "threw"
    /\ exec.errName = "TypeError"
    /\ exec.value = "Reduce of empty array with no initial value"
    /\ resp.isError

(* C2 as stated: a call with a name that matches no registered operation does not
   throw; it returns a structured failure (message plus error flag) and invokes
   no Operation. *)
C2_Original ==
    (pc = "Responded" /\ req.name \notin ToolNames) =>
        /\ resp.kind = "result"
        /\ Len(resp.content) = 1
        /\ resp.isError
        /\ exec.kind = "none"

(* C2 amended: a call with a name that matches no registered operation makes the
   handler throw Error("Unknown tool: <name>") to its caller; no result payload is
   returned, no Operation is invoked and the dataset is untouched. *)
C2_UnknownNameThrows ==
    (pc = "Responded" /\ req.name \notin ToolNames) =>
        /\ resp.kind = "thrown"
        /\ resp.message = "Unknown tool: " \o req.name
        /\ resp.content = <<>>
        /\ ~resp.hasIsError
        /\ exec = NoExec
        /\ Dataset = Fixture

C2_Witness ==
    /\ pc = "Responded"
    /\ req.name = "delete_tool"
    /\ resp.kind = "thrown"

\* the response a freshly started server with this registry gives to the request
FreshResponse ==
    HandlerResult(Execute(req.name, tools[req.name], req.args, Fixture))

(* C3: after any sequence of calls, failed ones included, a call with valid
   arguments is answered with the response a freshly started server gives to it
   as its first call. *)
C3_SameAsFresh ==
    (pc = "Responded" /\ req.name \in ToolNames /\ SchemaValid(req.name, req.args)) =>
        resp = FreshResponse

\* a valid call answered with a report after an earlier call had failed
C3_Witness ==
    /\ pc = "Responded"
    /\ anyFailed
    /\ req.name = "get_tool_history"
    /\ SchemaValid(req.name, req.args)
    /\ resp.kind = "result"
    /\ ~OperationFailed

(* C4 as stated: every response carries exactly one text payload; the error flag
   is set, with error-prefixed text, on every call whose operation failed and is
   absent on every call that succeeded. *)
C4_Original ==
    (pc = "Responded" /\ req.name \in ToolNames) =>
        /\ resp.kind = "result"
        /\ Len(resp.content) = 1
        /\ OperationFailed => (resp.hasIsError /\ resp.isError
                               /\ startsWith(TextOf(resp), "Error: "))
        /\ ~OperationFailed => ~resp.hasIsError

(* C5 as stated: arguments that violate the declared schema produce an
   InvalidArgument failure, decided before any dataset read. *)
C5_Original ==
    (pc = "Responded" /\ req.name \in ToolNames /\ ~SchemaValid(req.name, req.args)) =>
        /\ (resp.kind = "thrown" \/ resp.isError)
        /\ ~exec.read


\* the place where sub first occurs in s (0 when it does not)
IndexOf(s, sub) ==
    IF includes(s, sub)
    THEN CHOOSE i \in 1..(Len(s) - Len(sub) + 1) :
             /\ SubSeq(s, i, i + Len(sub) - 1) = sub
             /\ \A j \in 1..(i - 1) : SubSeq(s, j, j + Len(sub) - 1) # sub
    ELSE 0

\* the operation failed because a tool id is not in the dataset
UnknownToolFailure ==
    /\ OperationFailed
    /\ \/ includes(exec.value, "Unknown tool")
       \/ includes(exec.value, "not found")
       \/ includes(exec.value, "No history found")

\* the response holds a rendered report (every report opens with its title glyph)
ReportRendered ==
    /\ Len(resp.content) = 1
    /\ \/ includes(TextOf(resp), "[chart]")
       \/ includes(TextOf(resp), "[trend]")

(* C6: a compare call fails with an unknown-tool failure whenever some id of its
   tools list is not in the dataset, and a history call fails with an
   unknown-tool failure whenever its tool id is not in the dataset; no report is
   rendered in either case. *)
C6_UnknownToolFails ==
    /\ (Answered("compare_tools") /\ Has(req.args, "tools")
        /\ \E i \in 1..Len(req.args.tools) : req.args.tools[i] \notin Ids(TOOLS_0))
       => (UnknownToolFailure /\ ~ReportRendered)
    /\ (Answered("get_tool_history")
        /\ (Has(req.args, "tool") => req.args.tool \notin Ids(TOOLS_0)))
       => (UnknownToolFailure /\ ~ReportRendered)

\* compare.js threw for a list that holds two known ids and an unknown one
C6_Witness ==
    /\ Answered("compare_tools")
    /\ tools["compare_tools"] = "dataset"
    /\ Has(req.args, "tools")
    /\ req.args.tools = <<"openai", "gemini", "cursor">>
    /\ exec.kind = "threw"
    /\ exec.value = "Unknown tools: gemini"

\* a compare call served by tools/compare.js with a list of 2 or 3 known ids
ValidCompare ==
    /\ Answered("compare_tools")
    /\ tools["compare_tools"] = "dataset"
    /\ Has(req.args, "tools")
    /\ Len(req.args.tools) \in MinItems..MaxItems
    /\ \A i \in 1..Len(req.args.tools) : req.args.tools[i] \in ToolEnum
    /\ Has(req.args, "time_range") => req.args.time_range \in TimeRangeEnum

\* the number of entries the downloads section / the community section has for a tool
DownloadsEntries(text, id) == Occurrences(text, Concat(<<"[bullet] ", NameOf(id), ": ">>))
CommunityEntries(text, id) == Occurrences(text, Concat(<<"[bullet] ", NameOf(id), ":\n">>))

(* C7 as stated: for every tools list of length 2 or 3 drawn from the five ids and
   every time_range, Compare never fails and its report names exactly those tools
   once each. *)
C7_Original ==
    ValidCompare =>
        /\ exec.kind = "returned" /\ ~resp.isError
        /\ \A id \in ToolEnum :
              IF CountIn(req.args.tools, id) > 0
              THEN /\ DownloadsEntries(TextOf(resp), id) = 1
                   /\ CommunityEntries(TextOf(resp), id) = 1
              ELSE ~includes(TextOf(resp), NameOf(id))

(* C7 amended: for every tools list of length 2 or 3 drawn from the five ids and
   every time_range, Compare never fails and each section of its report lists
   exactly the tools of the list, one entry per list element: once each when the
   ids are distinct, and an id that the list repeats once per occurrence. *)
C7_NamesEachListEntry ==
    ValidCompare =>
        /\ exec.kind = "returned" /\ ~resp.isError
        /\ \A id \in ToolEnum :
              IF CountIn(req.args.tools, id) > 0
              THEN /\ DownloadsEntries(TextOf(resp), id) = CountIn(req.args.tools, id)
                   /\ CommunityEntries(TextOf(resp), id) = CountIn(req.args.tools, id)
              ELSE ~includes(TextOf(resp), NameOf(id))

\* a report for three distinct tools over 90 days
C7_Witness ==
    /\ ValidCompare
    /\ req.args.tools = <<"langchain", "openai", "cursor">>
    /\ Has(req.args, "time_range") /\ req.args.time_range = "90d"
    /\ exec.kind = "returned"
    /\ includes(TextOf(resp), "AI Developer Tools Comparison")

(* C8 as stated: for every tool id of the enumerated set and every months in
   3..12, historyTool.execute succeeds with a report that holds the
   'Historical Adoption' title and a 'Growth Analysis' section, and never
   returns an error text. *)
C8_Original ==
    (Answered("get_tool_history")
     /\ Has(req.args, "tool") /\ req.args.tool \in ToolEnum
     /\ Has(req.args, "months")
     /\ req.args.months >= MonthsMinimum /\ req.args.months <= MonthsMaximum)
    => /\ exec.kind = "returned"
       /\ includes(exec.value, "Historical Adoption")
       /\ includes(exec.value, "Growth Analysis")
       /\ ~startsWith(exec.value, "[cross] ")

\* a search call with category llm-api and min_downloads 10000000 and no keyword
LlmApiSearch ==
    /\ Answered("search_tools")
    /\ Has(req.args, "category") /\ req.args.category = "llm-api"
    /\ Has(req.args, "min_downloads") /\ req.args.min_downloads = 10000000
    /\ ~Has(req.args, "keyword")

\* the report lists the tool
Lists(text, id) == includes(text, Concat(<<"**", NameOf(id), "**">>))

(* C9 as stated: Search with category=llm-api and min_downloads=10000000 returns
   exactly the tools of category llm-api with monthly downloads >= 10,000,000,
   and on the fixture that is openai only. *)
C9_Original ==
    LlmApiSearch =>
        /\ exec.kind = "returned"
        /\ \A id \in ToolEnum : Lists(exec.value, id) <=> (id = "openai")

(* C9 amended: Search with category=llm-api and min_downloads=10000000 returns
   exactly the tools of category llm-api with monthly downloads >= 10,000,000,
   and on the fixture that is openai and anthropic (13,925,000 is not below the
   threshold). *)
C9_LlmApiAboveThreshold ==
    LlmApiSearch =>
        /\ exec.kind = "returned"
        /\ \A id \in ToolEnum :
              Lists(exec.value, id) <=>
                  /\ Entry(TOOLS_0, id).category = "llm-api"
                  /\ Entry(CURRENT_METRICS_0, id).npm_downloads_monthly >= 10000000
        /\ \A id \in ToolEnum : Lists(exec.value, id) <=> (id \in {"openai", "anthropic"})

C9_Witness ==
    /\ LlmApiSearch
    /\ Lists(exec.value, "openai")
    /\ Lists(exec.value, "anthropic")

\* a search call served by tools/search.js with no filter and no sort_by
UnfilteredSearch ==
    /\ Answered("search_tools")
    /\ tools["search_tools"] = "dataset"
    /\ DOMAIN req.args \cap {"category", "min_downloads", "keyword", "sort_by"} = {}

(* C10: Search with no filters returns all 5 tools of the dataset, ordered by
   monthly downloads descending when sort_by is omitted. *)
C10_AllByDownloads ==
    UnfilteredSearch =>
        /\ exec.kind = "returned"
        /\ includes(exec.value, "**Found 5 tools:**")
        /\ \A id \in ToolEnum : Lists(exec.value, id)
        /\ \A a, b \in ToolEnum :
              Entry(CURRENT_METRICS_0, a).npm_downloads_monthly
                  > Entry(CURRENT_METRICS_0, b).npm_downloads_monthly
              => IndexOf(exec.value, Concat(<<"**", NameOf(a), "**">>))
                     < IndexOf(exec.value, Concat(<<"**", NameOf(b), "**">>))

C10_Witness ==
    /\ UnfilteredSearch
    /\ req.hasArgs
    /\ startsWith(exec.value, "[search] AI Developer Tools Search Results\n\n**Found 5 tools:**\n\n1. **OpenAI SDK**")


-----------------------------------------------------------------------------
(* Trending, growth and history.                                           *)

\* the growth percent of a fixture tool over a window of months, from the stored points
FixtureGrowth(id, window) ==
    LET h == HISTORICAL_DATA_0[id]
        latest == h[Len(h)].downloads
        previous == h[Len(h) - window].downloads
    IN  Rat((latest - previous) * 100, previous)

\* a trending call with a limit of the schema's range
RangedTrending ==
    /\ Answered("get_trending_tools")
    /\ Has(req.args, "limit")
    /\ req.args.limit >= LimitMinimum /\ req.args.limit <= LimitMaximum

\* the window of months a time_range stands for
WindowOf(args) == IF Has(args, "time_range") /\ args.time_range = "90d" THEN 3 ELSE 1

(* C11: for every limit in 3..10, every category and every time_range, Trending
   returns at most limit entries, and the entries are listed by growth percent
   descending, not in the downloads-descending order they were staged in. *)
C11_TopByGrowth ==
    RangedTrending =>
        /\ exec.kind = "returned"
        /\ Occurrences(exec.value, "   - Growth: +") <= req.args.limit
        /\ Occurrences(exec.value, "   - Growth: +")
               = Cardinality({id \in ToolEnum : Lists(exec.value, id)})
        /\ \A a, b \in ToolEnum :
              (/\ Lists(exec.value, a) /\ Lists(exec.value, b)
               /\ IndexOf(exec.value, Concat(<<"**", NameOf(a), "**">>))
                      < IndexOf(exec.value, Concat(<<"**", NameOf(b), "**">>)))
              => ~RatLess(FixtureGrowth(a, WindowOf(req.args)),
                          FixtureGrowth(b, WindowOf(req.args)))

\* limit 3 over all categories: Cursor, last by downloads, is listed first, and
\* two of the five tools are cut off
C11_Witness ==
    /\ RangedTrending
    /\ req.args.limit = 3
    /\ ~Has(req.args, "category")
    /\ Occurrences(exec.value, "   - Growth: +") = 3
    /\ includes(exec.value, "1. [bolt] **Cursor**") \/ includes(exec.value, "1. [trend] **Cursor**")
           \/ includes(exec.value, "1. [fire] **Cursor**")
    /\ ~Lists(exec.value, "copilot")


-----------------------------------------------------------------------------
(* The helper functions evaluated on their own: the arguments are drawn    *)
(* at the start and one step applies the function to them.                 *)

\* current values and previous samples handed to calculateGrowth
CurrentValues == {-100, 0, 50, 100, 250, 450000}
PreviousValues == {undefined, Num(0), Num(100), Num(200), Num(390000)}

GrowthCalls ==
    {[name |-> "calculateGrowth", current |-> c, previous |-> p] :
        c \in CurrentValues, p \in PreviousValues}

\* values handed to formatNumber: around both thresholds, at decimal ties, and
\* figures of the dataset
NumberValues ==
    {-5, 0, 1, 999, 1000, 1499, 1500, 2500, 18500, 999499, 999500, 999999, 1000000,
     1049999, 1050000, 1150000, 1250000, 2050000, 2550000, 13925000, 36143000}

FormatCalls == {[name |-> "formatNumber", num |-> v] : v \in NumberValues}

\* longest history and widest window handed to getGrowthMetrics
MaxHistoryLen == 3
MaxWindow == 4

\* download figures of the sampled history points
SampleValues == {0, 100, 150}

\* the histories a tool may have: none (the id is no key of HISTORICAL_DATA), or
\* 0..MaxHistoryLen points
Histories ==
    {undefined} \cup
    {Num(h) : h \in UNION {[1..n -> SampleValues] : n \in 0..MaxHistoryLen}}

\* getGrowthMetrics is called for this tool
SampledTool == "cursor"

WindowCalls ==
    {[name |-> "getGrowthMetrics", history |-> h, months |-> m, time_range |-> t] :
        h \in Histories, m \in 0..MaxWindow, t \in {"7d", "30d", "90d"}}

\* the dataset in which SampledTool has the history of the call
SampledDataset(history) ==
    [TOOLS |-> TOOLS_0,
     CURRENT_METRICS |-> CURRENT_METRICS_0,
     HISTORICAL_DATA |->
        [id \in IF history.has THEN DOMAIN HISTORICAL_DATA_0
                                ELSE DOMAIN HISTORICAL_DATA_0 \ {SampledTool} |->
            IF id = SampledTool THEN Points(history.v) ELSE HISTORICAL_DATA_0[id]]]

\* monthly downloads and growth percents of the compared tools drawn for the
\* two highlights, with equal values among them
DownloadFigures == {100, 200}
GrowthFigures == {-5, 5}

\* one compared tool: pos is its place in the input list; the monthly downloads
\* are held under the name compare.js gives them and under the API record's name
Compared(i, d, g) ==
    [pos |-> i, downloads_monthly |-> d, npm_downloads_monthly |-> d,
     growth_pct |-> Rat(g, 1)]

Comparisons ==
    UNION {{[i \in 1..n |-> Compared(i, d[i], g[i])] :
               d \in [1..n -> DownloadFigures], g \in [1..n -> GrowthFigures]} :
           n \in 1..MaxToolsLen}

HighlightCalls == {[name |-> "highlights", comparison |-> c] : c \in Comparisons}

\* the ids of a dataset drawn for ranking, and the orders they may be inserted in
RankedIds == {"a", "b", "c"}
InsertionOrders ==
    {p \in [1..Cardinality(RankedIds) -> RankedIds] :
        \A i, j \in DOMAIN p : i # j => p[i] # p[j]}

\* each tool has one of two download figures; its history has two points, 100
\* and one of two latest figures, so that downloads and growth both have ties
RankingCalls ==
    {[name |-> "ranking", order |-> p, downloads |-> d, latest |-> l] :
        p \in InsertionOrders,
        d \in [RankedIds -> DownloadFigures],
        l \in [RankedIds -> {100, 150}]}

\* the dataset of a ranking call: TOOLS and CURRENT_METRICS hold the ids in the
\* order drawn
RankedDataset(call) ==
    [TOOLS |->
        [i \in 1..Len(call.order) |->
            [id |-> call.order[i], name |-> "Tool " \o call.order[i],
             package |-> call.order[i], description |-> "", category |-> "editor"]],
     CURRENT_METRICS |->
        [i \in 1..Len(call.order) |->
            [id |-> call.order[i],
             npm_downloads_monthly |-> call.downloads[call.order[i]],
             npm_downloads_weekly |-> 0, github_stars |-> 0,
             stackoverflow_questions_30d |-> 0, reddit_mentions_30d |-> 0,
             last_updated |-> "2025-01-15"]],
     HISTORICAL_DATA |-> [id \in RankedIds |-> Points(<<100, call.latest[id]>>)]]

\* The calls of the API client's methods: ids known and unknown and absent, id
\* lists absent and with unknown ids, parameter objects absent, null and given.
Given == {"undefined", "null", "object"}

ClientMethods ==
    {"getToolMetrics", "compareTools", "getTrendingTools", "searchTools", "getToolHistory"}

ClientCalls ==
    {[name |-> "getToolMetrics", toolId |-> t] : t \in IdUniverse \cup {"undefined"}}
    \cup {[name |-> "compareTools", hasIds |-> h, toolIds |-> l, timeRange |-> t] :
              h \in BOOLEAN, l \in ToolLists, t \in {"30d", "90d"}}
    \cup {[name |-> "getTrendingTools", given |-> g, params |-> p] :
              g \in Given, p \in TrendingArgs}
    \cup {[name |-> "searchTools", given |-> g, params |-> p] :
              g \in Given, p \in SearchArgs}
    \cup {[name |-> "getToolHistory", toolId |-> t, months |-> m] :
              t \in IdUniverse \cup {"undefined"}, m \in 1..MaxHistoryLen \cup {6}}

PureCalls ==
    GrowthCalls \cup FormatCalls \cup WindowCalls \cup HighlightCalls \cup RankingCalls
        \cup ClientCalls

PureInit ==
    /\ TOOLS = TOOLS_0
    /\ CURRENT_METRICS = CURRENT_METRICS_0
    /\ HISTORICAL_DATA = HISTORICAL_DATA_0
    /\ tools = ImportedRegistry
    /\ pc = "Idle"
    /\ req = NoRequest
    /\ exec = NoExec
    /\ resp = NoResponse
    /\ anyFailed = FALSE
    /\ calls = NoCalls
    /\ fn \in PureCalls
    /\ ret = NoRet

\* calculateGrowth(current, previous) is evaluated
ApplyCalculateGrowth ==
    /\ fn.name = "calculateGrowth"
    /\ ~ret.done
    /\ ret' = [done |-> TRUE, value |-> calculateGrowth(fn.current, fn.previous)]
    /\ UNCHANGED <<TOOLS, CURRENT_METRICS, HISTORICAL_DATA, tools, pc, req, exec, resp,
                   anyFailed, fn, calls>>

\* every copy of formatNumber(num) is evaluated
ApplyFormatNumber ==
    /\ fn.name = "formatNumber"
    /\ ~ret.done
    /\ ret' = [done |-> TRUE,
               compare |-> compare_formatNumber(fn.num),
               trending |-> trending_formatNumber(fn.num),
               search |-> search_formatNumber(fn.num),
               history |-> history_formatNumber(fn.num),
               formatters |-> formatNumber(fn.num)]
    /\ UNCHANGED <<TOOLS, CURRENT_METRICS, HISTORICAL_DATA, tools, pc, req, exec, resp,
                   anyFailed, fn, calls>>

\* getGrowthMetrics(toolId, months) is evaluated, and with it the growth_pct that
\* compare_tools and get_trending_tools derive for the tool
ApplyGetGrowthMetrics ==
    /\ fn.name = "getGrowthMetrics"
    /\ ~ret.done
    /\ LET D == SampledDataset(fn.history)
       IN  ret' = [done |-> TRUE,
                   value |-> getGrowthMetrics(SampledTool, fn.months, D),
                   compare |-> ComparisonEntry(SampledTool, fn.time_range, D).growth_pct,
                   trending |-> Entry(trending_ranked(fn.time_range, "all", D),
                                      SampledTool).growth_pct]
    /\ UNCHANGED <<TOOLS, CURRENT_METRICS, HISTORICAL_DATA, tools, pc, req, exec, resp,
                   anyFailed, fn, calls>>

\* the two highlights of a comparison are taken, by compare.js and by formatComparison
ApplyHighlights ==
    /\ fn.name = "highlights"
    /\ ~ret.done
    /\ ret' = [done |-> TRUE,
               leader |-> compare_leader(fn.comparison).pos,
               fastestGrowing |-> compare_fastestGrowing(fn.comparison).pos,
               mostPopular |-> formatComparison_mostPopular(fn.comparison).pos,
               fastest |-> formatComparison_fastest(fn.comparison).pos]
    /\ UNCHANGED <<TOOLS, CURRENT_METRICS, HISTORICAL_DATA, tools, pc, req, exec, resp,
                   anyFailed, fn, calls>>

\* the staging rank of getToolsByMetric and the final order of Trending are taken
ApplyRanking ==
    /\ fn.name = "ranking"
    /\ ~ret.done
    /\ LET D == RankedDataset(fn)
           staged == getToolsByMetric(10, D)
           ranked == trending_ranked("30d", "all", D)
       IN  ret' = [done |-> TRUE,
                   staged |-> [i \in 1..Len(staged) |-> staged[i].id],
                   ranked |-> [i \in 1..Len(ranked) |-> ranked[i].id]]
    /\ UNCHANGED <<TOOLS, CURRENT_METRICS, HISTORICAL_DATA, tools, pc, req, exec, resp,
                   anyFailed, fn, calls>>

\* a method of the API client is called and its promise settles: the delay is
\* over (index.js 402-405) and the body of the method has run on the dataset
ApplyClientMethod ==
    /\ fn.name \in ClientMethods
    /\ ~ret.done
    /\ ret' = [done |-> TRUE,
               response |->
                   CASE fn.name = "getToolMetrics" -> getToolMetrics(fn.toolId, Dataset)
                     [] fn.name = "compareTools" ->
                            compareTools(fn.hasIds, fn.toolIds, fn.timeRange, Dataset)
                     [] fn.name = "getTrendingTools" ->
                            getTrendingTools(fn.given, fn.params, Dataset)
                     [] fn.name = "searchTools" ->
                            client_searchTools(fn.given, fn.params, Dataset)
                     [] fn.name = "getToolHistory" ->
                            getToolHistory(fn.toolId, fn.months, Dataset)]
    /\ UNCHANGED <<TOOLS, CURRENT_METRICS, HISTORICAL_DATA, tools, pc, req, exec, resp,
                   anyFailed, fn, calls>>

PureNext ==
    \/ ApplyClientMethod
    \/ ApplyRanking
    \/ ApplyCalculateGrowth
    \/ ApplyFormatNumber
    \/ ApplyGetGrowthMetrics
    \/ ApplyHighlights

PureSpec == PureInit /\ [][PureNext]_vars

(* C12: for every current value x, calculateGrowth(x, 0) is 0 and
   calculateGrowth(x, undefined) is 0: a zero or missing previous sample yields
   the number 0, never infinity, never NaN and never an error. *)
C12_ZeroPrevious ==
    (fn.name = "calculateGrowth" /\ ret.done
     /\ (~fn.previous.has \/ fn.previous.v = 0))
    => ret.value = [n |-> 0, d |-> 1]

\* both edge cases were evaluated, for a positive current value
C12_Witness ==
    /\ fn.name = "calculateGrowth"
    /\ ret.done
    /\ fn.current = 250
    /\ fn.previous = Num(0)
    /\ ret.value = Zero


\* the labels of the fixture's months, as the history report writes them
MonthLabels_0 == <<"Jul 2024", "Aug 2024", "Sep 2024", "Oct 2024", "Nov 2024", "Dec 2024">>

\* the place of the report's line for the i-th stored month (0 when it has none)
PointLine(text, i) == IndexOf(text, Concat(<<"[bullet] ", MonthLabels_0[i], ": ">>))

\* the stored downloads of the i-th month of a fixture tool
Stored(id, i) == HISTORICAL_DATA_0[id][i].downloads

\* the growth percent from the i-th to the j-th stored point of a fixture tool
GrowthBetween(id, i, j) == Rat((Stored(id, j) - Stored(id, i)) * 100, Stored(id, i))

\* a history call for a known tool served by the direct-dataset history tool
DatasetHistory ==
    /\ Answered("get_tool_history")
    /\ tools["get_tool_history"] = "dataset"
    /\ Has(req.args, "tool") /\ req.args.tool \in ToolEnum

(* C13: History with months=6 on a tool that has exactly 6 stored points returns
   all 6 points in ascending month order, and its total growth is the growth
   from the first returned point to the last one (point[0] to point[5]). *)
C13_AllSixPoints ==
    (DatasetHistory /\ Has(req.args, "months") /\ req.args.months = 6
     /\ Len(HISTORICAL_DATA_0[req.args.tool]) = 6)
    => /\ exec.kind = "returned"
       /\ \A i \in 1..6 : PointLine(exec.value, i) > 0
       /\ \A i \in 1..5 : PointLine(exec.value, i) < PointLine(exec.value, i + 1)
       /\ Occurrences(exec.value, " 2024: ") = 6
       /\ includes(exec.value,
                   Concat(<<"[bullet] Total Growth: +",
                            toFixed1(GrowthBetween(req.args.tool, 1, 6)), "%\n">>))

\* Cursor over 6 months: 120K to 450K is +275.0%
C13_Witness ==
    /\ DatasetHistory
    /\ req.args.tool = "cursor"
    /\ Has(req.args, "months") /\ req.args.months = 6
    /\ includes(exec.value, "[bullet] Jul 2024: 120K\n[bullet] Aug 2024: 180K\n")
    /\ includes(exec.value, "[bullet] Total Growth: +275.0%\n")


\* the text a freshly started server with this registry answers the request with
FreshText == TextOf(HandlerResult(Execute(req.name, tools[req.name], req.args, Fixture)))

(* C14: for each of the four operations and every argument mapping, the rendered
   text of a call depends on the operation and its arguments only: whatever calls
   came before, it is the text the first call of a fresh server gets, so two
   invocations with identical arguments yield identical text. *)
C14_SameTextEveryTime ==
    (pc = "Responded" /\ req.name \in ToolNames) =>
        /\ resp.kind = "result"
        /\ TextOf(resp) = FreshText

\* a search that leaves its results in the order of the dataset (sort_by is none of
\* the known fields), answered after earlier calls
C14_Witness ==
    /\ Answered("search_tools")
    /\ anyFailed
    /\ Has(req.args, "sort_by") /\ req.args.sort_by = "rating"
    /\ DOMAIN req.args = {"sort_by"}
    /\ includes(TextOf(resp), "1. **OpenAI SDK**")
    /\ TextOf(resp) = FreshText

(* C15: no operation and no sequence of operations changes the dataset: TOOLS,
   CURRENT_METRICS and HISTORICAL_DATA, the order of their entries included, are
   after every call what they were at start, although Search and Trending sort
   their result arrays in place. *)
C15_DatasetUnchanged ==
    /\ TOOLS = TOOLS_0
    /\ CURRENT_METRICS = CURRENT_METRICS_0
    /\ HISTORICAL_DATA = HISTORICAL_DATA_0

\* Trending has answered with Cursor first (its sorted result) after earlier calls,
\* and the tables still hold OpenAI first
C15_Witness ==
    /\ Answered("get_trending_tools")
    /\ anyFailed
    /\ exec.kind = "returned" /\ exec.read
    /\ includes(exec.value, "**Fastest Growing**\n1. [trend] **Cursor**")
    /\ CURRENT_METRICS[1].id = "openai"
    /\ CURRENT_METRICS = CURRENT_METRICS_0


-----------------------------------------------------------------------------
(* Several calls in flight at once. The handler and the tools are async     *)
(* functions on one thread: a call runs until its next await and the calls  *)
(* interleave at those points only. A dataset tool has no await of its own, *)
(* so its execute runs to its end within the handler's first step; an       *)
(* API-client tool suspends in _simulateNetworkDelay before the client      *)
(* method reads the dataset. What follows the client's read (building the   *)
(* response, formatting it) touches nothing but the call's own locals and   *)
(* is folded into the step of the read.                                     *)

\* the number of calls the transport delivers side by side
MaxCalls == 2

\* the requests delivered side by side
ConcRequests ==
    {[name |-> "compare_tools", hasArgs |-> TRUE, args |-> [tools |-> <<"openai", "cursor">>]],
     [name |-> "compare_tools", hasArgs |-> TRUE, args |-> [tools |-> <<"openai", "gemini">>]],
     [name |-> "get_trending_tools", hasArgs |-> TRUE, args |-> [limit |-> 3]],
     [name |-> "get_tool_history", hasArgs |-> TRUE, args |-> [tool |-> "cursor", months |-> 3]],
     [name |-> "get_tool_history", hasArgs |-> TRUE, args |-> [tool |-> "openai", months |-> 6]],
     [name |-> "get_tool_history", hasArgs |-> TRUE, args |-> [tool |-> "gemini"]],
     [name |-> "search_tools", hasArgs |-> TRUE, args |-> [sort_by |-> "name"]],
     [name |-> "search_tools", hasArgs |-> FALSE, args |-> NoArgs],
     [name |-> "delete_tool", hasArgs |-> FALSE, args |-> NoArgs]}

\* a slot with no call in it
NoCall == [pc |-> "idle", req |-> NoRequest, exec |-> NoExec, resp |-> NoResponse]

ConcInit ==
    /\ TOOLS = TOOLS_0
    /\ CURRENT_METRICS = CURRENT_METRICS_0
    /\ HISTORICAL_DATA = HISTORICAL_DATA_0
    /\ tools \in Registries
    /\ pc = "Idle"
    /\ req = NoRequest
    /\ exec = NoExec
    /\ resp = NoResponse
    /\ anyFailed = FALSE
    /\ fn = NoFn
    /\ ret = NoRet
    /\ calls = [i \in 1..MaxCalls |-> NoCall]

\* a request for a name no tool carries: the handler throws at once (lines 112-115)
ReceiveUnknown(i, r) ==
    /\ calls[i].pc = "idle"
    /\ r.name \notin DOMAIN tools
    /\ calls' = [calls EXCEPT ![i] = [pc |-> "done", req |-> r, exec |-> NoExec,
                                      resp |-> HandlerThrown("Unknown tool: " \o r.name)]]
    /\ UNCHANGED <<TOOLS, CURRENT_METRICS, HISTORICAL_DATA, tools, pc, req, exec, resp,
                   anyFailed, fn, ret>>

\* a request for a dataset tool: execute has no await and runs to its end, then the
\* handler waits for the settled promise (line 119)
ReceiveDataset(i, r) ==
    /\ calls[i].pc = "idle"
    /\ r.name \in DOMAIN tools /\ tools[r.name] = "dataset"
    /\ \E o \in {Execute(r.name, "dataset", r.args, Dataset)} :
           /\ calls' = [calls EXCEPT ![i] =
                           [pc |-> "awaiting", req |-> r,
                            exec |-> [kind |-> o.kind, value |-> o.value,
                                      errName |-> o.errName, read |-> o.read],
                            resp |-> NoResponse]]
           /\ TOOLS' = o.D.TOOLS
           /\ CURRENT_METRICS' = o.D.CURRENT_METRICS
           /\ HISTORICAL_DATA' = o.D.HISTORICAL_DATA
    /\ UNCHANGED <<tools, pc, req, exec, resp, anyFailed, fn, ret>>

\* a request for an API-client tool: execute calls the client method, which
\* suspends in _simulateNetworkDelay (index.js 402-405) before it reads anything
ReceiveApi(i, r) ==
    /\ calls[i].pc = "idle"
    /\ r.name \in DOMAIN tools /\ tools[r.name] = "api"
    /\ calls' = [calls EXCEPT ![i] = [pc |-> "delay", req |-> r, exec |-> NoExec,
                                      resp |-> NoResponse]]
    /\ UNCHANGED <<TOOLS, CURRENT_METRICS, HISTORICAL_DATA, tools, pc, req, exec, resp,
                   anyFailed, fn, ret>>

\* the delay of call i is over and the arguments of call i, kept on the shared
\* client, are those of the latest call for the same tool that is still waiting
DelayElapsed_sharedArgs(i) ==
    /\ calls[i].pc = "delay"
    /\ LET others == {j \in DOMAIN calls :
                        /\ j # i /\ calls[j].pc = "delay"
                        /\ calls[j].req.name = calls[i].req.name}
           args == IF others = {} THEN calls[i].req.args
                   ELSE calls[CHOOSE j \in others : TRUE].req.args
       IN  \E o \in {Execute(calls[i].req.name, "api", args, Dataset)} :
               /\ calls' = [calls EXCEPT ![i].pc = "awaiting",
                                         ![i].exec = [kind |-> o.kind, value |-> o.value,
                                                      errName |-> o.errName, read |-> o.read]]
               /\ TOOLS' = o.D.TOOLS
               /\ CURRENT_METRICS' = o.D.CURRENT_METRICS
               /\ HISTORICAL_DATA' = o.D.HISTORICAL_DATA
    /\ UNCHANGED <<tools, pc, req, exec, resp, anyFailed, fn, ret>>

\* the delay of call i is over: the client method reads the dataset, answers, and
\* the tool renders the answer; the handler still waits for the settled promise
DelayElapsed(i) ==
    /\ calls[i].pc = "delay"
    /\ \E o \in {Execute(calls[i].req.name, "api", calls[i].req.args, Dataset)} :
           /\ calls' = [calls EXCEPT ![i].pc = "awaiting",
                                     ![i].exec = [kind |-> o.kind, value |-> o.value,
                                                  errName |-> o.errName, read |-> o.read]]
           /\ TOOLS' = o.D.TOOLS
           /\ CURRENT_METRICS' = o.D.CURRENT_METRICS
           /\ HISTORICAL_DATA' = o.D.HISTORICAL_DATA
    /\ UNCHANGED <<tools, pc, req, exec, resp, anyFailed, fn, ret>>

\* the handler of call i resumes only once no other call is inside its delay
Resume_afterOtherDelays(i) ==
    /\ calls[i].pc = "awaiting"
    /\ \A j \in DOMAIN calls : j # i => calls[j].pc # "delay"
    /\ calls' = [calls EXCEPT ![i].pc = "done", ![i].resp = HandlerResult(calls[i].exec)]
    /\ UNCHANGED <<TOOLS, CURRENT_METRICS, HISTORICAL_DATA, tools, pc, req, exec, resp,
                   anyFailed, fn, ret>>

\* the handler of call i resumes after its await and returns (lines 119-145)
Resume(i) ==
    /\ calls[i].pc = "awaiting"
    /\ calls' = [calls EXCEPT ![i].pc = "done", ![i].resp = HandlerResult(calls[i].exec)]
    /\ UNCHANGED <<TOOLS, CURRENT_METRICS, HISTORICAL_DATA, tools, pc, req, exec, resp,
                   anyFailed, fn, ret>>

\* the response of call i is handed to the transport
Deliver(i) ==
    /\ calls[i].pc = "done"
    /\ calls' = [calls EXCEPT ![i] = NoCall]
    /\ UNCHANGED <<TOOLS, CURRENT_METRICS, HISTORICAL_DATA, tools, pc, req, exec, resp,
                   anyFailed, fn, ret>>

ConcNext ==
    \/ \E i \in 1..MaxCalls : \E r \in ConcRequests : ReceiveUnknown(i, r)
    \/ \E i \in 1..MaxCalls : \E r \in ConcRequests : ReceiveDataset(i, r)
    \/ \E i \in 1..MaxCalls : \E r \in ConcRequests : ReceiveApi(i, r)
    \/ \E i \in 1..MaxCalls : DelayElapsed(i)
    \/ \E i \in 1..MaxCalls : Resume(i)
    \/ \E i \in 1..MaxCalls : Deliver(i)

ConcSpec == ConcInit /\ [][ConcNext]_vars

\* The event loop runs every timer that has expired and every continuation of a
\* settled promise, and the transport sends every response it is handed: a step of
\* a call that stays possible is taken. Nothing obliges a client to send a request.
\* The first conjunct is WF_vars(DelayElapsed(i)) written out, with the guard of
\* DelayElapsed(i), which is all that its being enabled comes to, in the place of
\* ENABLED <<DelayElapsed(i)>>_vars.
ConcFairSpec ==
    /\ ConcSpec
    /\ \A i \in 1..MaxCalls :
          /\ ([]<>(calls[i].pc # "delay") \/ []<><<DelayElapsed(i)>>_vars)
          /\ WF_vars(Resume(i))
          /\ WF_vars(Deliver(i))

\* the response the request gets when it is the only call of a fresh server
AloneResponse(r) ==
    IF r.name \notin ToolNames
    THEN HandlerThrown("Unknown tool: " \o r.name)
    ELSE HandlerResult(Execute(r.name, tools[r.name], r.args, Fixture))

(* C16: when several calls are in flight at once and interleave at their
   suspension points, every call returns exactly the result it returns when run
   alone; no interleaving lets a call observe or alter another call's data. *)
C16_SameAsAlone ==
    \A i \in DOMAIN calls :
        calls[i].pc = "done" => calls[i].resp = AloneResponse(calls[i].req)

\* a history call through the API client has finished while another history call,
\* with other arguments, that was waiting in its delay at the same time goes on
C16_Witness ==
    \E i, j \in DOMAIN calls :
        /\ i # j
        /\ calls[i].pc = "done" /\ calls[j].pc \in {"delay", "awaiting"}
        /\ calls[i].req.name = "get_tool_history" /\ tools["get_tool_history"] = "api"
        /\ calls[j].req.name = "get_tool_history"
        /\ calls[i].req.args # calls[j].req.args
        /\ calls[i].resp.kind = "result"


\* text is value/1e6 with one decimal and 'M': the tenths of a million nearest to num
MillionsRule(num, text) ==
    \E t \in (num \div 100000)..(num \div 100000 + 1) :
        /\ Abs(t * 100000 - num) <= 50000
        /\ text = ToString(t \div 10) \o "." \o ToString(t % 10) \o "M"

\* text is value/1e3 rounded to an integer and 'K'
ThousandsRule(num, text) ==
    \E k \in (num \div 1000)..(num \div 1000 + 1) :
        /\ Abs(k * 1000 - num) <= 500
        /\ text = ToString(k) \o "K"

(* C17: the number abbreviation rule is the same in every operation: a value
   >= 1,000,000 renders as value/1e6 with one decimal followed by 'M', a value
   >= 1,000 as value/1e3 rounded to an integer followed by 'K', a smaller value
   as the plain integer; every copy of formatNumber (compare, trending, history,
   search, formatters) returns identical text for identical input. *)
C17_SameAbbreviation ==
    (fn.name = "formatNumber" /\ ret.done) =>
        /\ ret.trending = ret.compare
        /\ ret.search = ret.compare
        /\ ret.history = ret.compare
        /\ ret.formatters = ret.compare
        /\ fn.num >= 1000000 => MillionsRule(fn.num, ret.search)
        /\ (fn.num >= 1000 /\ fn.num < 1000000) => ThousandsRule(fn.num, ret.search)
        /\ fn.num < 1000 => ret.search = ToString(fn.num)

\* the lower end of the 'M' range: exactly one million is "1.0M" in every copy
C17_Witness ==
    /\ fn.name = "formatNumber"
    /\ ret.done
    /\ fn.num = 1000000
    /\ ret.compare = "1.0M" /\ ret.formatters = "1.0M"


\* the months argument of a history call (6 when it is left out)
MonthsOf(args) == Get(args, "months", 6)

\* the place among the stored points of the first point History returns
FirstReturned(id, months) ==
    IF Len(HISTORICAL_DATA_0[id]) - months > 0
    THEN Len(HISTORICAL_DATA_0[id]) - months + 1
    ELSE 1

\* the growth percent from the first to the last point History returns
TotalGrowth(id, months) ==
    GrowthBetween(id, FirstReturned(id, months), Len(HISTORICAL_DATA_0[id]))

\* a history call for a known tool with a positive months argument
KnownHistory ==
    /\ Answered("get_tool_history")
    /\ Has(req.args, "tool") /\ req.args.tool \in ToolEnum
    /\ MonthsOf(req.args) >= 1

\* the total growth as formatHistory divides it: already rounded to one decimal
RoundedTotal(id, months) == Rat(Tenths(TotalGrowth(id, months)), 10)

\* the text of toFixed(1) of the quotient formatHistory computes
RoundedQuotientText(id, months) ==
    LET q == RatDiv(RoundedTotal(id, months), months)
    IN  IF <<Tenths(TotalGrowth(id, months)), months>> \in QuotientBelowTie
        THEN TenthsText(Tenths(q) - 1)
        ELSE toFixed1(q)

\* a figure of formatHistory's report: a '+' goes before it when it is above zero
\* (the fixture has no falling series)
Signed(text) == IF text = "0.0" THEN text ELSE "+" \o text

(* C18: History's reported average monthly growth is the total growth (first
   returned point to last returned point) divided by the requested months
   argument, not by the number of points returned, for every tool and every
   months value: the direct-dataset tool divides the total growth itself, and
   formatHistory divides the total growth as its report states it, to one
   decimal. *)
C18_AverageOverRequestedMonths ==
    KnownHistory =>
        IF tools["get_tool_history"] = "dataset"
        THEN includes(exec.value,
                 Concat(<<"[bullet] Growth Rate: ",
                          toFixed1(RatDiv(TotalGrowth(req.args.tool, MonthsOf(req.args)),
                                          MonthsOf(req.args))),
                          "% per month\n">>))
        ELSE includes(exec.value,
                 Concat(<<"[bullet] Average Monthly: ",
                          Signed(RoundedQuotientText(req.args.tool, MonthsOf(req.args))),
                          "%\n">>))

\* 12 months asked of a tool with 6 points: Cursor's +275.0% is stated as 22.9% per
\* month (275 / 12), not as 45.8% (275 / 6)
C18_Witness ==
    /\ KnownHistory
    /\ tools["get_tool_history"] = "dataset"
    /\ req.args.tool = "cursor"
    /\ MonthsOf(req.args) = 12
    /\ includes(exec.value, "[bullet] Total Growth: +275.0%\n[bullet] Growth Rate: 22.9% per month\n")


\* the place of the line that the report of either implementation has for the i-th
\* stored month (0 when it has none)
MonthLine(text, i) ==
    IF tools["get_tool_history"] = "dataset"
    THEN PointLine(text, i)
    ELSE IndexOf(text, Concat(<<Months_0[i], ": ">>))

(* C19: for a known tool, History returns the last min(months, available) history
   points in ascending month order; when fewer than months points are stored it
   returns all of them and does not fail. *)
C19_LastPoints ==
    KnownHistory =>
        /\ exec.kind = "returned"
        /\ ~OperationFailed
        /\ ~resp.isError
        /\ \A i \in 1..Len(HISTORICAL_DATA_0[req.args.tool]) :
              MonthLine(exec.value, i) > 0
                  <=> i >= FirstReturned(req.args.tool, MonthsOf(req.args))
        /\ \A i, j \in 1..Len(HISTORICAL_DATA_0[req.args.tool]) :
              (i < j /\ MonthLine(exec.value, i) > 0)
                  => MonthLine(exec.value, i) < MonthLine(exec.value, j)

\* 12 months asked through the API client of a tool with 6 stored points: all 6 are
\* returned, and no error
C19_Witness ==
    /\ KnownHistory
    /\ tools["get_tool_history"] = "api"
    /\ MonthsOf(req.args) = 12
    /\ req.args.tool = "anthropic"
    /\ MonthLine(exec.value, 1) > 0
    /\ includes(exec.value, "2024-07: 6.2M downloads\n2024-08: 7.8M downloads\n")


-----------------------------------------------------------------------------
\* the sampled history of the call under evaluation, as a sequence of figures
CalledHistory == IF fn.history.has THEN fn.history.v ELSE <<>>

\* the figure `window` positions before the latest one, or the earliest figure
\* when the history does not reach that far back
WindowStart(h, window) ==
    h[IF Len(h) - window < 1 THEN 1 ELSE Len(h) - window]

\* the growth in percent from the window's start to the latest figure
WindowGrowth(h, window) ==
    IF WindowStart(h, window) = 0 THEN Zero
    ELSE Rat((h[Len(h)] - WindowStart(h, window)) * 100, WindowStart(h, window))

(* C20: getGrowthMetrics(id, months) takes as previous the history point months
   positions before the latest sample, clamped to the earliest point when the
   window exceeds the history length, and never errors on short history: with
   fewer than 2 points the growth seen by Compare and Trending is 0. *)
C20_ClampedWindow ==
    (fn.name = "getGrowthMetrics" /\ ret.done) =>
        LET h == CalledHistory
            window == IF fn.time_range = "90d" THEN 3 ELSE 1
        IN  IF Len(h) < 2
            THEN /\ ~ret.value.has
                 /\ ret.compare = Zero
                 /\ ret.trending = Zero
            ELSE /\ ret.value.has
                 /\ ret.value.current = h[Len(h)]
                 /\ ret.value.previous = WindowStart(h, fn.months)
                 /\ ret.value.growth_pct = WindowGrowth(h, fn.months)
                 /\ ret.compare = WindowGrowth(h, window)
                 /\ ret.trending = WindowGrowth(h, window)

\* a window of 4 months over 3 points is clamped to the earliest point, and so is
\* the 3-month window of Compare and Trending
C20_Witness ==
    /\ fn.name = "getGrowthMetrics"
    /\ ret.done
    /\ fn.history = Num(<<100, 0, 150>>)
    /\ fn.months = 4
    /\ fn.time_range = "90d"
    /\ ret.value.previous = 100
    /\ ret.value.growth_pct = Rat(50, 1)
    /\ ret.compare = Rat(50, 1)
    /\ ret.trending = Rat(50, 1)

-----------------------------------------------------------------------------
(* Search: filter, empty result, order.                                    *)

\* a search call that execute has answered with text that is no error text
SearchReturned ==
    /\ Answered("search_tools")
    /\ exec.kind = "returned"
    /\ ~startsWith(exec.value, "[cross] ")

\* the tool satisfies every predicate that the arguments supply
Matches(id, args) ==
    /\ Has(args, "category") => Entry(TOOLS_0, id).category = args.category
    /\ Has(args, "min_downloads") =>
           Entry(CURRENT_METRICS_0, id).npm_downloads_monthly >= args.min_downloads
    /\ Has(args, "keyword") =>
           \/ includes(toLowerCase(Entry(TOOLS_0, id).name), toLowerCase(args.keyword))
           \/ includes(toLowerCase(Entry(TOOLS_0, id).description), toLowerCase(args.keyword))

(* C21: Search's filter is the conjunction of its supplied predicates: a tool is
   in the result if and only if its category equals the category filter (when
   given), its monthly downloads are >= min_downloads (inclusive, when given),
   and the keyword (when given) is a case-insensitive substring of its name or
   of its description; with no predicates the result is the full dataset. *)
C21_FilterIsConjunction ==
    Answered("search_tools") =>
        /\ SearchReturned
        /\ \A id \in ToolEnum : Lists(exec.value, id) <=> Matches(id, req.args)

\* all three predicates at once: of the two llm-api tools above the threshold only
\* openai has the keyword, which is given in another case than the name has it in
C21_Witness ==
    /\ SearchReturned
    /\ Has(req.args, "category") /\ req.args.category = "llm-api"
    /\ Has(req.args, "min_downloads") /\ req.args.min_downloads = 5000000
    /\ Has(req.args, "keyword") /\ req.args.keyword = "AI"
    /\ Lists(exec.value, "openai")
    /\ \A id \in ToolEnum \ {"openai"} : ~Lists(exec.value, id)

\* the text ends with the suffix
endsWith(s, suffix) ==
    /\ Len(s) >= Len(suffix)
    /\ SubSeq(s, Len(s) - Len(suffix) + 1, Len(s)) = suffix

\* a search call whose predicates no tool of the dataset satisfies
EmptySearch ==
    /\ Answered("search_tools")
    /\ \A id \in ToolEnum : ~Matches(id, req.args)

(* C22: when Search's filtered result set is empty, the operation returns the
   'no tools found' report and never computes or renders the summary aggregate
   (no total, no average, no division by the zero result count). *)
C22_EmptyResultSkipsSummary ==
    EmptySearch =>
        /\ SearchReturned
        /\ ~resp.isError
        /\ IF tools["search_tools"] = "dataset"
           THEN endsWith(exec.value, "\n\nNo tools found matching your criteria.")
           ELSE exec.value = "No tools found matching your search criteria."
        /\ ~includes(exec.value, "Summary")
        /\ ~includes(exec.value, "Total Monthly Downloads")
        /\ ~includes(exec.value, "Average per Tool")
        /\ ~includes(exec.value, "NaN")
        /\ ~includes(exec.value, "Found")

\* a category that no tool has, asked of tools/search.js
C22_Witness ==
    /\ EmptySearch
    /\ tools["search_tools"] = "dataset"
    /\ DOMAIN req.args = {"category"}
    /\ req.args.category = "database"
    /\ exec.value = Concat(<<"[search] AI Developer Tools Search Results\n\n",
                             "**Filters:** Category: database\n**Sort:** downloads\n\n",
                             "No tools found matching your criteria.">>)

\* the place of the tool's entry in the report (0 when it is not listed)
ListedAt(text, id) == IndexOf(text, Concat(<<"**", NameOf(id), "**">>))

\* the sort field of the call
SortByOf(args) == Get(args, "sort_by", "downloads")

\* the characters of the tools' names, in code-point order
CodePoints == " ABCDEFGHIJKLMNOPQRSTUVWXYZabcdefghijklmnopqrstuvwxyz"

CodePointRank(c) == CHOOSE i \in 1..Len(CodePoints) : SubSeq(CodePoints, i, i) = c

RECURSIVE CodePointLess(_, _)
\* a is before b in lexicographic order
CodePointLess(a, b) ==
    IF b = "" THEN FALSE
    ELSE IF a = "" THEN TRUE
    ELSE IF Head(a) # Head(b)
         THEN CodePointRank(SubSeq(a, 1, 1)) < CodePointRank(SubSeq(b, 1, 1))
         ELSE CodePointLess(Tail(a), Tail(b))

\* a goes before b in the order that the sort field asks for
GoesBefore(a, b, sort_by) ==
    CASE sort_by = "downloads" ->
             Entry(CURRENT_METRICS_0, a).npm_downloads_monthly
                 > Entry(CURRENT_METRICS_0, b).npm_downloads_monthly
      [] sort_by = "stars" ->
             Entry(CURRENT_METRICS_0, a).github_stars > Entry(CURRENT_METRICS_0, b).github_stars
      [] sort_by = "name" -> CodePointLess(NameOf(a), NameOf(b))
      [] OTHER -> FALSE

(* C23 as stated: Search orders its result by the chosen sort field: by monthly
   downloads descending for sort_by=downloads, by star count descending for
   sort_by=stars, and by name in ascending lexicographic order for sort_by=name;
   the set of returned tools does not depend on sort_by. *)
C23_Original ==
    Answered("search_tools") =>
        /\ SearchReturned
        /\ \A a, b \in ToolEnum :
              (Lists(exec.value, a) /\ Lists(exec.value, b)
                   /\ GoesBefore(a, b, SortByOf(req.args)))
              => ListedAt(exec.value, a) < ListedAt(exec.value, b)
        /\ \A id \in ToolEnum : Lists(exec.value, id) <=> Matches(id, req.args)

-----------------------------------------------------------------------------
(* Compare: the two highlights.                                            *)

\* the first place of the list whose downloads no other place exceeds
FirstWithMostDownloads(c) ==
    CHOOSE i \in 1..Len(c) :
        /\ \A j \in 1..Len(c) : c[j].downloads_monthly <= c[i].downloads_monthly
        /\ \A j \in 1..(i - 1) : c[j].downloads_monthly < c[i].downloads_monthly

\* the first place of the list whose growth percent no other place exceeds
FirstWithMostGrowth(c) ==
    CHOOSE i \in 1..Len(c) :
        /\ \A j \in 1..Len(c) : ~RatLess(c[i].growth_pct, c[j].growth_pct)
        /\ \A j \in 1..(i - 1) : RatLess(c[j].growth_pct, c[i].growth_pct)

(* C24: in Compare, the 'leader' is a compared tool with the maximum monthly
   downloads and the 'fastest-growing' is a compared tool with the maximum growth
   percent; when several compared tools tie for a maximum, the one occurring
   first in the input tools list is chosen. *)
C24_FirstOfTheMaxima ==
    (fn.name = "highlights" /\ ret.done) =>
        /\ ret.leader = FirstWithMostDownloads(fn.comparison)
        /\ ret.mostPopular = FirstWithMostDownloads(fn.comparison)
        /\ ret.fastestGrowing = FirstWithMostGrowth(fn.comparison)
        /\ ret.fastest = FirstWithMostGrowth(fn.comparison)

\* three tools: the 2nd and 3rd tie for the most downloads, the 1st and 3rd for
\* the highest growth
C24_Witness ==
    /\ fn.name = "highlights"
    /\ ret.done
    /\ fn.comparison = <<Compared(1, 100, 5), Compared(2, 200, -5), Compared(3, 200, 5)>>
    /\ ret.leader = 2
    /\ ret.mostPopular = 2
    /\ ret.fastestGrowing = 1
    /\ ret.fastest = 1

-----------------------------------------------------------------------------
(* Compare and Trending: the growth window of a time_range.                *)

RECURSIVE Unlabelled(_, _)
\* the text with every occurrence of the time_range label struck out
Unlabelled(s, label) ==
    IF ~includes(s, label) THEN s
    ELSE LET at == IndexOf(s, label)
         IN  Concat(<<SubSeq(s, 1, at - 1), "<range>",
                      Unlabelled(SubSeq(s, at + Len(label), Len(s)), label)>>)

\* what a fresh server answers when the call's time_range is replaced by 30d
ThirtyDayText ==
    Execute(req.name, tools[req.name], [req.args EXCEPT !.time_range = "30d"], Fixture).value

\* the downloads line that tools/compare.js writes for a tool whose growth is taken
\* over the window
CompareGrowthLine(id, window) ==
    Concat(<<"[bullet] ", NameOf(id), ": ",
             compare_formatNumber(Entry(CURRENT_METRICS_0, id).npm_downloads_monthly),
             "/month ",
             IF RatLess(Rat(5, 1), FixtureGrowth(id, window)) THEN "[up]" ELSE "[flat]",
             " ", toFixed1(FixtureGrowth(id, window)), "%\n">>)

\* the growth line that tools/trending.js writes for a tool whose growth is taken
\* over the window
TrendingGrowthLine(id, window, time_range) ==
    Concat(<<" **", NameOf(id), "**\n   - Growth: +", toFixed1(FixtureGrowth(id, window)),
             "% over ", time_range, "\n">>)

\* a trending call answered with a report
TrendingReturned == Answered("get_trending_tools") /\ exec.kind = "returned"

(* C25: Compare and Trending compute growth over a window of 3 months when
   time_range is 90d and of 1 month otherwise, so for the same other arguments
   the growth figures and the ordering produced for time_range=7d are identical
   to those produced for time_range=30d. *)
C25_WindowOfTimeRange ==
    /\ ValidCompare =>
          /\ exec.kind = "returned"
          /\ \A i \in 1..Len(req.args.tools) :
                includes(exec.value, CompareGrowthLine(req.args.tools[i], WindowOf(req.args)))
    /\ Answered("get_trending_tools") =>
          /\ exec.kind = "returned"
          /\ \A id \in ToolEnum :
                Lists(exec.value, id) =>
                    includes(exec.value,
                             TrendingGrowthLine(id, WindowOf(req.args),
                                                Get(req.args, "time_range", "30d")))
    /\ (/\ ValidCompare \/ TrendingReturned
        /\ Has(req.args, "time_range")
        /\ req.args.time_range = "7d")
       => Unlabelled(exec.value, "7d") = Unlabelled(ThirtyDayText, "30d")

\* Cursor and OpenAI compared over 7d: the figures are the one-month ones (15.4% and
\* 11.6%), not the three-month ones (80.0% and 45.7%)
C25_Witness ==
    /\ ValidCompare
    /\ req.args.tools = <<"cursor", "openai">>
    /\ Has(req.args, "time_range") /\ req.args.time_range = "7d"
    /\ includes(exec.value, "[bullet] Cursor: 450K/month [up] 15.4%\n")
    /\ includes(exec.value, "[bullet] OpenAI SDK: 36.1M/month [up] 11.6%\n")
    /\ includes(exec.value, "[bullet] Cursor shows fastest growth at 15.4% over the period\n")

-----------------------------------------------------------------------------
(* Ranking: ties.                                                          *)

\* the place of an id in a list of ids
PlaceIn(list, id) == CHOOSE i \in 1..Len(list) : list[i] = id

\* the list holds every id of the set once
Permutes(list, ids) ==
    /\ Len(list) = Cardinality(ids)
    /\ \A id \in ids : \E i \in 1..Len(list) : list[i] = id

(* C26: ranking is stable: when two records have equal values of the ranking
   field (equal monthly downloads in the staging rank, equal growth percent in
   Trending's final order), they keep their prior relative order, which
   originates in dataset insertion order and never depends on id or name. *)
C26_StableRanking ==
    (fn.name = "ranking" /\ ret.done) =>
        /\ Permutes(ret.staged, RankedIds)
        /\ Permutes(ret.ranked, RankedIds)
        /\ \A a, b \in RankedIds :
              PlaceIn(ret.staged, a) < PlaceIn(ret.staged, b) =>
                  \/ fn.downloads[a] > fn.downloads[b]
                  \/ /\ fn.downloads[a] = fn.downloads[b]
                     /\ PlaceIn(fn.order, a) < PlaceIn(fn.order, b)
        /\ \A a, b \in RankedIds :
              PlaceIn(ret.ranked, a) < PlaceIn(ret.ranked, b) =>
                  \/ fn.latest[a] > fn.latest[b]
                  \/ /\ fn.latest[a] = fn.latest[b]
                     /\ PlaceIn(ret.staged, a) < PlaceIn(ret.staged, b)

\* c, b, a inserted in this order; b has the most downloads, c and a tie, and all
\* three grow alike: c stays before a in both rankings
C26_Witness ==
    /\ fn.name = "ranking"
    /\ ret.done
    /\ fn.order = <<"c", "b", "a">>
    /\ fn.downloads = [id \in RankedIds |-> IF id = "b" THEN 200 ELSE 100]
    /\ fn.latest = [id \in RankedIds |-> 150]
    /\ ret.staged = <<"b", "c", "a">>
    /\ ret.ranked = <<"b", "c", "a">>

-----------------------------------------------------------------------------
(* Defaults of the optional arguments.                                     *)

\* the defaults that the input schemas declare for each operation
DeclaredDefaults(name) ==
    CASE name = "compare_tools" -> [time_range |-> "30d"]
      [] name = "get_trending_tools" -> [time_range |-> "30d", limit |-> 5, category |-> "all"]
      [] name = "get_tool_history" -> [months |-> 6]
      [] name = "search_tools" -> [sort_by |-> "downloads"]

\* what a fresh server answers the call of the same operation with these arguments
ResponseTo(args) == HandlerResult(Execute(req.name, tools[req.name], args, Fixture))

(* C27: omitting an optional argument is equivalent to passing its declared
   default: for every other argument choice, a call without time_range equals
   the call with time_range=30d, without limit equals limit=5, without category
   (Trending) equals category=all, without months equals months=6, and without
   sort_by equals sort_by=downloads; a call with no arguments mapping at all is
   treated as a call with the empty mapping. *)
C27_OmittedIsDefault ==
    (pc = "Responded" /\ req.name \in ToolNames) =>
        /\ \A key \in DOMAIN DeclaredDefaults(req.name) \ DOMAIN req.args :
              resp = ResponseTo(req.args @@ (key :> DeclaredDefaults(req.name)[key]))
        /\ ~req.hasArgs => resp = ResponseTo(NoArgs)

\* a trending call with a category alone: it lists what limit 5 over 30d lists
C27_Witness ==
    /\ Answered("get_trending_tools")
    /\ req.hasArgs
    /\ DOMAIN req.args = {"category"}
    /\ req.args.category = "llm-api"
    /\ resp = ResponseTo([category |-> "llm-api", limit |-> 5, time_range |-> "30d"])
    /\ includes(TextOf(resp), "[calendar] Period: 30d | Category: llm-api\n")
    /\ Occurrences(TextOf(resp), "   - Growth: +") = 2

-----------------------------------------------------------------------------
(* The course of a call.                                                   *)

\* call i is executing a registered operation: inside the delay of the API client,
\* or with execute settled and the handler about to resume
Executing(i) == calls[i].pc \in {"delay", "awaiting"}

\* call i has produced its result, which the transport has yet to take
Produced(i) ==
    /\ calls[i].pc = "done"
    /\ calls[i].resp.kind = "result"
    /\ Len(calls[i].resp.content) = 1

\* no call is in slot i
IdleSlot(i) == calls[i] = NoCall

(* C28: every call for a registered operation goes Idle -> Executing -> Idle:
   once it is executing it eventually produces exactly one result (success text
   or structured error) and returns to Idle, and it does not wait on any other
   call to do so: a step of one call leaves the other calls as they are, and a
   call whose execute has settled can resume, and a call that has its result can
   hand it over, whatever the other calls are doing. *)
C28_CallRunsToCompletion ==
    /\ \A i \in 1..MaxCalls : Executing(i) ~> Produced(i)
    /\ \A i \in 1..MaxCalls : Produced(i) ~> IdleSlot(i)
    /\ [][\A i \in 1..MaxCalls :
             /\ (Executing(i) /\ ~Executing(i)') => Produced(i)'
             /\ (Produced(i) /\ calls[i]' # calls[i]) => IdleSlot(i)'
             /\ calls[i].resp' # calls[i].resp =>
                    (calls[i].resp = NoResponse \/ IdleSlot(i)')
             /\ calls[i]' # calls[i] =>
                    \A j \in 1..MaxCalls : j # i => calls[j]' = calls[j]]_vars
    /\ [](\A i \in 1..MaxCalls :
             /\ calls[i].pc = "awaiting" => ENABLED Resume(i)
             /\ calls[i].pc = "done" => ENABLED Deliver(i))

\* a call has produced its result while a call that is still inside its delay is
\* in flight
C28_Witness ==
    \E i, j \in 1..MaxCalls :
        /\ i # j
        /\ Produced(i)
        /\ calls[i].req.name \in ToolNames
        /\ calls[j].pc = "delay"

-----------------------------------------------------------------------------
(* C29 is about the responses of the API client.                           *)

\* a method of the client has settled
ClientSettled == fn.name \in ClientMethods /\ ret.done

\* the response of a success: status 200, ok, data, no error
SuccessShape(r) == r.ok /\ r.status = 200 /\ r.hasData /\ ~r.hasError

\* the response of a failure: not ok, no data, an error that carries a message
FailureShape(r) == ~r.ok /\ ~r.hasData /\ r.hasError /\ r.error.message # ""

(* C29: every method of the API client (getToolMetrics, compareTools,
   getTrendingTools, searchTools, getToolHistory) settles, for every input, with
   a response that is either {status 200, ok true, data present, error null} or
   {ok false, data null, error with a message}, and with no mixture of the two. *)
C29_ResponseShapes ==
    ClientSettled =>
        /\ DOMAIN ret.response = {"status", "ok", "data", "hasData", "error", "hasError"}
        /\ SuccessShape(ret.response) \/ FailureShape(ret.response)
        /\ ~(SuccessShape(ret.response) /\ FailureShape(ret.response))

\* an unknown id has been looked up and answered with a failure
C29_Witness ==
    /\ ClientSettled
    /\ fn.name = "getToolMetrics"
    /\ fn.toolId = UnknownId
    /\ FailureShape(ret.response)
    /\ ret.response.status = 404

-----------------------------------------------------------------------------
(* C30 is about the tools that go through the API client.                  *)

\* the call in flight was served by a tool that goes through the API client
ApiServed ==
    /\ pc = "Responded"
    /\ req.name \in {"compare_tools", "get_tool_history", "search_tools"}
    /\ tools[req.name] = "api"

\* what the API client answers to the call in flight
ApiAnswer ==
    CASE req.name = "compare_tools" ->
             compareTools(Has(req.args, "tools"), Get(req.args, "tools", <<>>),
                          Get(req.args, "time_range", "30d"), Dataset)
      [] req.name = "get_tool_history" ->
             getToolHistory(Get(req.args, "tool", "undefined"), Get(req.args, "months", 6),
                            Dataset)
      [] req.name = "search_tools" ->
             client_searchTools("object",
                 [k \in DOMAIN req.args \cap {"category", "min_downloads", "keyword"} |->
                     req.args[k]] @@ [sort_by |-> Get(req.args, "sort_by", "downloads")],
                 Dataset)

(* C30: in the API-client variants of compare_tools, get_tool_history and
   search_tools, execute never raises, whatever the argument mapping: a failure
   of the API layer (an ok = false response) becomes returned text that begins
   with the error marker, and the call completes with that one text as its
   result. *)
C30_FailureBecomesText ==
    ApiServed =>
        /\ exec.kind = "returned"
        /\ resp.kind = "result"
        /\ Len(resp.content) = 1
        /\ TextOf(resp) = exec.value
        /\ ~ApiAnswer.ok => startsWith(exec.value, "[cross] ")

\* the history of an unknown tool was asked of the API-client tool, the client
\* answered 404 and execute returned the text of formatError
C30_Witness ==
    /\ ApiServed
    /\ req.name = "get_tool_history"
    /\ Has(req.args, "tool") /\ req.args.tool = UnknownId
    /\ ApiAnswer.status = 404
    /\ exec.kind = "returned"
    /\ startsWith(exec.value, "[cross] Unable to get tool history: No history found for 'gemini'")

====
